---- MODULE Spec2Model ----
(***************************************************************************)
(* garmr: FIT decoding, unit normalisation, heart-rate zones and their     *)
(* persistence.                                                            *)
(*                                                                         *)
(*   internal/fitx/fit_reader.go   ParseFIT, calculateHRZones              *)
(*   internal/importer/ingest.go   IngestFile                              *)
(*   internal/store/db.go          Insert*, CalculateHRZonesForActivity    *)
(*   internal/web/handlers_import.go  handleUpload, processFITFile,       *)
(*                                    handleImportNow, handleLogsSSE       *)
(*   internal/importlog            Printf, Subscribe, Unsubscribe          *)
(*   internal/web/auth_handlers.go handleAccountPassword                   *)
(*                                                                         *)
(* Conventions.  A Go nil pointer and an SQL NULL are the empty sequence,  *)
(* a present value v is <<v>>.  A nil slice is <<>>.  A nil error is the   *)
(* string "nil".                                                           *)
(***************************************************************************)
EXTENDS Integers, Sequences, FiniteSets, TLC

VARIABLES
    file,        \* the FIT file handed to the importer, as fit.Decode sees it
    parsed,      \* what the last ParseFIT call returned
    zoneTimes,   \* calculateHRZones' accumulators when its loop ended
    activities,  \* table activities
    records,     \* table records, in rowid order
    laps,        \* table laps, in rowid order
    hr_zones,    \* table hr_zones
    agg_daily,   \* table agg_daily
    call,        \* the last completed call: operation, arguments, result
    uarg,        \* unit level: the arguments of one call of a pure function
    uout,        \* unit level: what that call returned
    pc,          \* step level: the statement of ParseFIT to run next
    locals,      \* step level: meta, recs, laps and zones of that ParseFIT call
    stages,      \* step level: the stages of the per-file state machine so far
    pfile,       \* concurrent calls of ParseFIT: the file of each call
    ppc,         \* concurrent calls: the statement each call runs next
    plocals,     \* concurrent calls: the stack frames holding meta, recs, laps, zones
    pout,        \* concurrent calls: what each call returned
    ifile,       \* concurrent ingestions: the file each goroutine ingests
    ivia,        \* concurrent ingestions: "IngestFile" or "handleUpload"
    ipc,         \* concurrent ingestions: the statement each runs next
    iparsed,     \* concurrent ingestions: what ParseFIT returned to each
    itx,         \* concurrent ingestions: the tables as each open transaction sees them
    iid,         \* concurrent ingestions: the id InsertActivity returned to each
    ierr,        \* concurrent ingestions: the error each returned
    locks,       \* SQLite: the transactions that have read, and the one that has written
    hpc,         \* POST /api/import: the statement each request runs next
    hstatus,     \* POST /api/import: the status each request was answered with
    importBusy,  \* POST /api/import: the number of values in the channel importBusy
    im,          \* POST /api/import: whether the server has an importer
    lpc,         \* importlog: the statement each goroutine runs next
    mu,          \* importlog: the goroutine that holds the mutex, or 0
    lines,       \* importlog: the ring buffer
    subs,        \* importlog: the channels in the map subs
    chans,       \* importlog: the lines buffered in each channel
    closed,      \* importlog: the channels that are closed
    todo,        \* importlog: the channels a Printf has yet to range over
    cur,         \* importlog: the line each Printf is printing
    got,         \* importlog: the lines each subscriber has received
    missed,      \* importlog: the lines dropped for each subscriber
    printed,     \* importlog: the number of lines printed
    panicked,    \* importlog: whether a send on a closed channel has panicked
    sessionRows, \* account: the rows of the sessions table
    created,     \* account: the number of session ids generated
    apc,         \* account: the statement the password handler runs next
    auser,       \* account: the user whose password is changed
    anew,        \* account: newSession, <<>> when none was created
    amsg,        \* account: data.Success or data.Error of the handler
    abefore      \* account: the user's sessions when the handler began

vars == <<file, parsed, zoneTimes, activities, records, laps, hr_zones,
          agg_daily, call, uarg, uout, pc, locals, stages,
          pfile, ppc, plocals, pout,
          ifile, ivia, ipc, iparsed, itx, iid, ierr, locks,
          hpc, hstatus, importBusy, im,
          lpc, mu, lines, subs, chans, closed, todo, cur, got, missed,
          printed, panicked,
          sessionRows, created, apc, auser, anew, amsg, abefore>>

\* the variables of the importer on one file and of the unit level
coreVars == <<file, parsed, zoneTimes, activities, records, laps, hr_zones,
              agg_daily, call, uarg, uout>>

\* the variables of the step level
stepVars == <<pc, locals, stages>>

\* the variables of the concurrent calls of ParseFIT
parVars == <<pfile, ppc, plocals, pout>>

\* the variables of the concurrent ingestions, the tables apart
ingVars == <<ifile, ivia, ipc, iparsed, itx, iid, ierr, locks>>

\* the variables of the manual import
importVars == <<hpc, hstatus, importBusy, im>>

\* the variables of the import log
logVars == <<lpc, mu, lines, subs, chans, closed, todo, cur, got, missed,
             printed, panicked>>

\* the variables of the account pages
authVars == <<sessionRows, created, apc, auser, anew, amsg, abefore>>

\* the variables of the web handlers
webVars == <<importVars, logVars, authVars>>

\* the variables beside those of the importer on one file
besideCore == <<stepVars, parVars, ingVars, webVars>>

\* the variables beside those of the step level
besideStep == <<parVars, ingVars, webVars>>

\* the variables beside those of the concurrent calls of ParseFIT
besidePar == <<coreVars, stepVars, ingVars, webVars>>

\* the variables beside those of the web handlers
besideWeb == <<coreVars, stepVars, parVars, ingVars>>

----------------------------------------------------------------------------
(* Bounds of the model. *)

\* longest record sequence of a file of the heart-rate family
MaxRecs == 3

\* longest record sequence of a file of the position family
MaxPosRecs == 1

----------------------------------------------------------------------------
(* Optional values. *)

None == <<>>

Some(v) == <<v>>

\* a float64 quotient num / den held exactly: whole + frac / den with
\* 0 <= frac < den (3500 / 1000 is whole 3, frac 500: 3.5)
Fixed(num, den) == [whole |-> num \div den, frac |-> num % den, den |-> den]

----------------------------------------------------------------------------
(* internal/fitx/fit_reader.go *)

\* the FIT "invalid" value of a uint8 field
InvalidU8 == 255

\* Activity{} : the zero value ParseFIT returns with an error or no session
ZeroActivity ==
    [FitUID |-> <<>>, StartTimeUTC |-> 0, DurationS |-> 0, DistanceM |-> 0,
     AvgHR |-> 0, MaxHR |-> 0, AvgSpeedMPS |-> Fixed(0, 1000),
     AerobicTE |-> None, AnaerobicTE |-> None]

\* FormatRFC3339 reading state that earlier calls have changed
FormatRFC3339_CountsStored(t) == <<t + Cardinality(activities)>>

\* s.StartTime.UTC().Format(time.RFC3339Nano): the text of the instant, here
\* the one-element string <<t>>; "" is <<>>.
FormatRFC3339 (t) == <<t>>

\* func() int { if x == 255 { return 0 } else { return int(x) } }()
SummaryHR(raw) == IF raw = InvalidU8 THEN 0 ELSE raw

\* RecordHR without the test for the sentinel
RecordHR_KeepsSentinel(raw) == IF raw # 0 THEN Some(raw) ELSE None

\* if rr.HeartRate != 0 && rr.HeartRate != 255 { v := int(rr.HeartRate); r.HR = &v }
RecordHR(raw) == IF raw # 0 /\ raw # InvalidU8 THEN Some(raw) ELSE None

\* float64(semicircles) * semicirclesToDeg, as a fixed-point number of 1/128
\* degree rounded down: floor(s * 180 / 2^24).  (180/2^31 and the product are
\* exact in float64: |s * 180| < 2^53.)
SemicirclesToDeg128(s) ==
    (s \div 16777216) * 180 + ((s % 16777216) * 45) \div 4194304

\* LatInBounds with both ends excluded
LatInBounds_Open(s) == s > -1073741824 /\ s < 1073741824

\* lat >= -90 && lat <= 90 on the exact product s * 180 / 2^31:
\* -90 <= s*180/2^31 <= 90  <=>  -2^30 <= s <= 2^30
LatInBounds(s) == s >= -1073741824 /\ s <= 1073741824

\* lon >= -180 && lon <= 180 on the exact product:
\* -180 <= s*180/2^31 <= 180  <=>  -2^31 <= s <= 2^31, decided on the halves
\* of s so that no intermediate value leaves 32 bits
LonInBounds(s) ==
    /\ s \div 2 >= -1073741824
    /\ \/ s \div 2 < 1073741824
       \/ s \div 2 = 1073741824 /\ s % 2 = 0

\* Position deciding each axis on its own
Position_PerAxis(rawLat, rawLon) ==
    <<IF rawLat # 0 /\ LatInBounds(rawLat)
      THEN Some(SemicirclesToDeg128(rawLat)) ELSE None,
      IF rawLon # 0 /\ LonInBounds(rawLon)
      THEN Some(SemicirclesToDeg128(rawLon)) ELSE None>>

\* lines 113-120: the position of a record, <<Lat, Lon>>
Position(rawLat, rawLon) ==
    IF rawLat # 0 /\ rawLon # 0
    THEN IF LatInBounds(rawLat) /\ LonInBounds(rawLon)
         THEN <<Some(SemicirclesToDeg128(rawLat)), Some(SemicirclesToDeg128(rawLon))>>
         ELSE <<None, None>>
    ELSE <<None, None>>

\* DivTrunc rounding to the nearest whole number
DivTrunc_Rounds(raw, scale) == (raw + scale \div 2) \div scale

\* int(float64(raw) / 1000.0): truncation toward zero of a non-negative uint32
DivTrunc(raw, scale) == raw \div scale

\* float64(raw) / 1000.0 of s.AvgSpeed and lp.AvgSpeed, kept whatever raw is
SummarySpeed(raw) == Fixed(raw, 1000)

\* if rr.Speed != 0 { v := float64(rr.Speed) / 1000.0; r.SpeedMPS = &v }
RecordSpeed(raw) == IF raw # 0 THEN Some(Fixed(raw, 1000)) ELSE None

\* RecordElevation without the offset of 500 m
RecordElevation_NoOffset(raw) == IF raw # 0 THEN Some(Fixed(raw, 5)) ELSE None

\* if rr.Altitude != 0 { v := float64(rr.Altitude)/5.0 - 500.0; r.ElevM = &v }
\* raw/5 - 500 = (raw - 2500)/5
RecordElevation(raw) == IF raw # 0 THEN Some(Fixed(raw - 2500, 5)) ELSE None

\* if rr.Cadence != 0 { v := int(rr.Cadence); r.Cad = &v }
RecordCadence(raw) == IF raw # 0 THEN Some(raw) ELSE None

\* if rr.Power != 0 { v := int(rr.Power); r.PowerW = &v }
RecordPower(raw) == IF raw # 0 THEN Some(raw) ELSE None

\* int16(x): x reduced to 16 bits, two's complement
Int16(x) == ((x + 32768) % 65536) - 32768

\* RecordTemperature reading the byte as unsigned
RecordTemperature_Unsigned(raw) == IF raw # 0 THEN Some(raw % 256) ELSE None

\* if rr.Temperature != 0 { v := float64(int16(rr.Temperature)); r.TempC = &v }
\* rr.Temperature is the int8 field of the record message
RecordTemperature(raw) == IF raw # 0 THEN Some(Int16(raw)) ELSE None

\* TrainingEffect without the test for 0
TrainingEffect_KeepsZero(raw) ==
    IF raw # InvalidU8 THEN Some(Fixed(raw, 10)) ELSE None

\* if te != 0 && te != 255 { val := float64(te) / 10.0; meta.AerobicTE = &val }
TrainingEffect(raw) ==
    IF raw # 0 /\ raw # InvalidU8 THEN Some(Fixed(raw, 10)) ELSE None

\* lines 74-105: the first session message to the Activity
NormalizeSession(s) ==
    [FitUID       |-> FormatRFC3339(s.StartTime),
     StartTimeUTC |-> s.StartTime,
     DurationS    |-> DivTrunc(s.TotalTimerTime, 1000),
     DistanceM    |-> DivTrunc(s.TotalDistance, 100),
     AvgHR        |-> SummaryHR(s.AvgHeartRate),
     MaxHR        |-> SummaryHR(s.MaxHeartRate),
     AvgSpeedMPS  |-> SummarySpeed(s.AvgSpeed),
     AerobicTE    |-> TrainingEffect(s.TotalTrainingEffect),
     AnaerobicTE  |-> TrainingEffect(s.TotalAnaerobicTrainingEffect)]

\* lines 110-144: one record message to one Record
NormalizeRecord(rr, start) ==
    LET pos == Position(rr.PositionLat, rr.PositionLong) IN
    [TOffsetS |-> rr.Timestamp - start,
     Lat      |-> pos[1],
     Lon      |-> pos[2],
     SpeedMPS |-> RecordSpeed(rr.Speed),
     ElevM    |-> RecordElevation(rr.Altitude),
     HR       |-> RecordHR(rr.HeartRate),
     Cad      |-> RecordCadence(rr.Cadence),
     TempC    |-> RecordTemperature(rr.Temperature),
     PowerW   |-> RecordPower(rr.Power)]

\* lines 148-162: one lap message to one Lap; i is the 0-based index
NormalizeLap(lp, i, start) ==
    [Index    |-> i,
     StartOff |-> lp.StartTime - start,
     DurS     |-> DivTrunc(lp.TotalTimerTime, 1000),
     DistM    |-> DivTrunc(lp.TotalDistance, 100),
     AvgHR    |-> SummaryHR(lp.AvgHeartRate),
     MaxHR    |-> SummaryHR(lp.MaxHeartRate),
     AvgSpd   |-> SummarySpeed(lp.AvgSpeed)]

\* zoneThresholds[z] * 100, z = 0..5 held at 1..6.  float64(maxHR) * 0.50 ..
\* 1.00 compared with an integer heart rate decides as the exact products
\* maxHR * 50/100 .. 100/100 do (the rounding of the float product never
\* crosses an integer for 0 <= maxHR < 100000), so the comparison
\* hr >= zoneThresholds[z] is 100 * hr >= ZoneThresholds100(maxHR)[z + 1].
ZoneThresholds100(maxHR) ==
    <<maxHR * 50, maxHR * 60, maxHR * 70, maxHR * 80, maxHR * 90, maxHR * 100>>

\* lines 207-213: for z := 0; z < 5; z++ { if hr >= t[z] && hr < t[z+1] {...} }
RECURSIVE ZoneScan(_, _, _)
ZoneScan(hr, maxHR, z) ==
    IF z >= 5 THEN -1
    ELSE IF 100 * hr >= ZoneThresholds100(maxHR)[z + 1]
            /\ 100 * hr < ZoneThresholds100(maxHR)[z + 2]
         THEN z
         ELSE ZoneScan(hr, maxHR, z + 1)

\* ZoneIndex without the lower bound of the first band
ZoneIndex_NoLowerBound(hr, maxHR) ==
    IF 100 * hr < ZoneThresholds100(maxHR)[2] THEN 0 ELSE ZoneScan(hr, maxHR, 1)

\* the 0-based zone index of a heart rate, -1 when it is in no band
ZoneIndex(hr, maxHR) == ZoneScan(hr, maxHR, 0)

\* lines 195-218: the accumulation loop from 1-based position i on
RECURSIVE ZoneLoop(_, _, _, _)
ZoneLoop(recs, maxHR, i, zt) ==
    IF i > Len(recs) - 1 THEN zt
    ELSE LET curr == recs[i]
             next == recs[i + 1]
         IN  IF curr.HR = None
             THEN ZoneLoop(recs, maxHR, i + 1, zt)
             ELSE LET duration == next.TOffsetS - curr.TOffsetS
                      zone     == ZoneIndex(curr.HR[1], maxHR)
                  IN  ZoneLoop(recs, maxHR, i + 1,
                               IF zone >= 0
                               THEN [zt EXCEPT ![zone + 1] = @ + duration]
                               ELSE zt)

\* the loop classifying the heart rate of the next record of the pair
RECURSIVE ZoneLoop_ByNextHR(_, _, _, _)
ZoneLoop_ByNextHR(recs, maxHR, i, zt) ==
    IF i > Len(recs) - 1 THEN zt
    ELSE LET curr == recs[i]
             next == recs[i + 1]
         IN  IF next.HR = None
             THEN ZoneLoop_ByNextHR(recs, maxHR, i + 1, zt)
             ELSE LET duration == next.TOffsetS - curr.TOffsetS
                      zone     == ZoneIndex(next.HR[1], maxHR)
                  IN  ZoneLoop_ByNextHR(recs, maxHR, i + 1,
                                        IF zone >= 0
                                        THEN [zt EXCEPT ![zone + 1] = @ + duration]
                                        ELSE zt)

ZoneTimes_ByNextHR(recs, maxHR) == ZoneLoop_ByNextHR(recs, maxHR, 1, <<0, 0, 0, 0, 0>>)

\* the loop skipping a pair whose next record has no heart rate
RECURSIVE ZoneLoop_NeedsNextHR(_, _, _, _)
ZoneLoop_NeedsNextHR(recs, maxHR, i, zt) ==
    IF i > Len(recs) - 1 THEN zt
    ELSE LET curr == recs[i]
             next == recs[i + 1]
         IN  IF curr.HR = None \/ next.HR = None
             THEN ZoneLoop_NeedsNextHR(recs, maxHR, i + 1, zt)
             ELSE LET duration == next.TOffsetS - curr.TOffsetS
                      zone     == ZoneIndex(curr.HR[1], maxHR)
                  IN  ZoneLoop_NeedsNextHR(recs, maxHR, i + 1,
                                           IF zone >= 0
                                           THEN [zt EXCEPT ![zone + 1] = @ + duration]
                                           ELSE zt)

ZoneTimes_NeedsNextHR(recs, maxHR) ==
    ZoneLoop_NeedsNextHR(recs, maxHR, 1, <<0, 0, 0, 0, 0>>)

\* zoneTimes := make([]int, 5) and the loop over it
ZoneTimes(recs, maxHR) == ZoneLoop(recs, maxHR, 1, <<0, 0, 0, 0, 0>>)

\* lines 220-231: the zones with timeSeconds > 0, in index order
RECURSIVE ZonesFrom(_, _)
ZonesFrom(zt, i) ==
    IF i > Len(zt) THEN <<>>
    ELSE (IF zt[i] > 0 THEN <<[Zone |-> i, TimeSeconds |-> zt[i]]>> ELSE <<>>)
         \o ZonesFrom(zt, i + 1)

\* calculateHRZones keeping every zone whose seconds are not 0
RECURSIVE ZonesFrom_NonZero(_, _)
ZonesFrom_NonZero(zt, i) ==
    IF i > Len(zt) THEN <<>>
    ELSE (IF zt[i] # 0 THEN <<[Zone |-> i, TimeSeconds |-> zt[i]]>> ELSE <<>>)
         \o ZonesFrom_NonZero(zt, i + 1)

calculateHRZones_KeepsNonZero(recs, maxHR) ==
    IF maxHR = 0 THEN <<>> ELSE ZonesFrom_NonZero(ZoneTimes(recs, maxHR), 1)

\* calculateHRZones
calculateHRZones(recs, maxHR) ==
    IF maxHR = 0 THEN <<>> ELSE ZonesFrom(ZoneTimes(recs, maxHR), 1)

\* the accumulators calculateHRZones held when it returned; <<>> when it
\* returned before allocating them
AccumulatorsOf(recs, maxHR) ==
    IF maxHR = 0 THEN <<>> ELSE ZoneTimes(recs, maxHR)

Failure(e) ==
    [act |-> ZeroActivity, recs |-> <<>>, laps |-> <<>>, zones |-> <<>>, err |-> e]

\* ParseFIT
\* NoSessionResult reporting an error
NoSessionResult_AsError == Failure("no session")

\* lines 69-71: return Activity{}, nil, nil, nil, nil
NoSessionResult ==
    [act |-> ZeroActivity, recs |-> <<>>, laps |-> <<>>, zones |-> <<>>,
     err |-> "nil"]

ParseFIT(f) ==
    IF f.status = "missing" THEN Failure("open")
    ELSE IF f.status = "malformed" THEN Failure("decode")
    ELSE IF f.status = "wrongtype" THEN Failure("activity")
    ELSE IF Len(f.sessions) = 0 THEN NoSessionResult
    ELSE LET s    == f.sessions[1]
             meta == NormalizeSession(s)
             recs == [i \in 1..Len(f.records) |->
                         NormalizeRecord(f.records[i], s.StartTime)]
             lps  == [i \in 1..Len(f.laps) |->
                         NormalizeLap(f.laps[i], i - 1, s.StartTime)]
         IN  [act   |-> meta,
              recs  |-> recs,
              laps  |-> lps,
              zones |-> calculateHRZones(recs, meta.MaxHR),
              err   |-> "nil"]

----------------------------------------------------------------------------
(* internal/store/db.go and the migrations: the tables and their statements *)

\* errors.New("duplicate activity")
ErrDuplicate == "duplicate activity"

\* LookupActivityByUID: err == nil exactly when a row has that fit_uid
LookupActivityByUID(tbl, uid) == \E a \in tbl : a.fit_uid = uid

\* LookupActivityByHash: err == nil exactly when a row has that file_hash
LookupActivityByHash(tbl, h) == \E a \in tbl : a.file_hash = h

\* id INTEGER PRIMARY KEY: the rowid SQLite gives the next row
NextRowID(tbl) ==
    IF tbl = {} THEN 1
    ELSE (CHOOSE m \in {a.id : a \in tbl} : \A a \in tbl : a.id <= m) + 1

\* InsertActivity on a table without its unique indexes
InsertActivity_NoUniqueIndex(tbl, a, hash) ==
    [tbl |-> tbl \cup {[id             |-> NextRowID(tbl),
                        fit_uid        |-> a.FitUID,
                        start_time_utc |-> a.StartTimeUTC,
                        duration_s     |-> a.DurationS,
                        avg_hr         |-> a.AvgHR,
                        max_hr         |-> a.MaxHR,
                        file_hash      |-> hash]},
     id  |-> NextRowID(tbl),
     err |-> "nil"]

\* InsertActivity: the new table, the new id and the error; the unique
\* indexes uidx_activities_fituid and uidx_activities_filehash reject a row
\* that repeats a fit_uid or a file_hash
InsertActivity(tbl, a, hash) ==
    IF LookupActivityByUID(tbl, a.FitUID) \/ LookupActivityByHash(tbl, hash)
    THEN [tbl |-> tbl, id |-> 0, err |-> "constraint"]
    ELSE [tbl |-> tbl \cup {[id             |-> NextRowID(tbl),
                             fit_uid        |-> a.FitUID,
                             start_time_utc |-> a.StartTimeUTC,
                             duration_s     |-> a.DurationS,
                             avg_hr         |-> a.AvgHR,
                             max_hr         |-> a.MaxHR,
                             file_hash      |-> hash]},
          id  |-> NextRowID(tbl),
          err |-> "nil"]

\* InsertRecords: one row per record, a nil field stored as NULL
InsertRecords(tbl, id, recs) ==
    tbl \o [i \in 1..Len(recs) |->
               [activity_id |-> id,
                t_offset_s  |-> recs[i].TOffsetS,
                lat_deg     |-> IF recs[i].Lat # None THEN recs[i].Lat ELSE None,
                lon_deg     |-> IF recs[i].Lon # None THEN recs[i].Lon ELSE None,
                hr          |-> IF recs[i].HR # None THEN recs[i].HR ELSE None]]

\* InsertLaps
InsertLaps(tbl, id, lps) ==
    tbl \o [i \in 1..Len(lps) |->
               [activity_id |-> id,
                lap_index   |-> lps[i].Index,
                avg_hr      |-> lps[i].AvgHR,
                max_hr      |-> lps[i].MaxHR]]

\* InsertHRZones: PRIMARY KEY (activity_id, zone) rejects a repeated zone
RECURSIVE InsertHRZones(_, _, _, _)
InsertHRZones(tbl, id, zones, i) ==
    IF i > Len(zones) THEN [tbl |-> tbl, err |-> "nil"]
    ELSE IF \E r \in tbl : r.activity_id = id /\ r.zone = zones[i].Zone
         THEN [tbl |-> tbl, err |-> "constraint"]
         ELSE InsertHRZones(tbl \cup {[activity_id  |-> id,
                                       zone         |-> zones[i].Zone,
                                       time_seconds |-> zones[i].TimeSeconds]},
                            id, zones, i + 1)

\* start.UTC().Format("2006-01-02"): the day of an instant
DayOf(t) == t \div 86400

\* UpsertDailyAgg: INSERT .. ON CONFLICT(day) DO UPDATE SET total = total +
\* excluded.total (total_duration_s stands for all the summed columns)
UpsertDailyAgg(tbl, start, a) ==
    IF \E r \in tbl : r.day = DayOf(start)
    THEN {IF r.day = DayOf(start)
          THEN [r EXCEPT !.total_duration_s = @ + a.DurationS]
          ELSE r : r \in tbl}
    ELSE tbl \cup {[day |-> DayOf(start), total_duration_s |-> a.DurationS]}

\* GetHRZones: SELECT zone, time_seconds .. WHERE activity_id = ? ORDER BY zone
RECURSIVE ZoneRowsFrom(_, _, _)
ZoneRowsFrom(tbl, id, z) ==
    IF z > 5 THEN <<>>
    ELSE LET hit == {r \in tbl : r.activity_id = id /\ r.zone = z} IN
         (IF hit = {} THEN <<>>
          ELSE <<[Zone |-> z, TimeSeconds |-> (CHOOSE r \in hit : TRUE).time_seconds]>>)
         \o ZoneRowsFrom(tbl, id, z + 1)

GetHRZones(tbl, id) == ZoneRowsFrom(tbl, id, 1)

\* the rowids the query of CalculateHRZonesForActivity selects:
\* WHERE activity_id = ? AND hr IS NOT NULL AND hr != 255
HRRowIDs(tbl, id) ==
    {i \in 1..Len(tbl) :
        tbl[i].activity_id = id /\ tbl[i].hr # None /\ tbl[i].hr # Some(InvalidU8)}

\* ORDER BY t_offset_s: every order of the rowids I that is non-decreasing in
\* t_offset_s (SQL leaves the order of equal keys open)
RECURSIVE OrderedByOffset(_, _)
OrderedByOffset(tbl, I) ==
    IF I = {} THEN {<<>>}
    ELSE UNION {{<<i>> \o rest : rest \in OrderedByOffset(tbl, I \ {i})} :
                  i \in {j \in I : \A k \in I : tbl[j].t_offset_s <= tbl[k].t_offset_s}}

\* the hrRecord slices the query can return
QueryHRRecords(tbl, id) ==
    {[k \in 1..Len(order) |->
         [TOffsetS |-> tbl[order[k]].t_offset_s, HR |-> tbl[order[k]].hr[1]]] :
       order \in OrderedByOffset(tbl, HRRowIDs(tbl, id))}

\* db.go 289-295: the zone scan of CalculateHRZonesForActivity
RECURSIVE StoredZoneScan(_, _, _)
StoredZoneScan(hr, maxHR, z) ==
    IF z >= 5 THEN -1
    ELSE IF 100 * hr >= ZoneThresholds100(maxHR)[z + 1]
            /\ 100 * hr < ZoneThresholds100(maxHR)[z + 2]
         THEN z
         ELSE StoredZoneScan(hr, maxHR, z + 1)

\* db.go 281-300: the accumulation loop over the hrRecord slice
RECURSIVE StoredZoneLoop(_, _, _, _)
StoredZoneLoop(rows, maxHR, i, zt) ==
    IF i > Len(rows) - 1 THEN zt
    ELSE LET duration == rows[i + 1].TOffsetS - rows[i].TOffsetS
             zone     == StoredZoneScan(rows[i].HR, maxHR, 0)
         IN  StoredZoneLoop(rows, maxHR, i + 1,
                            IF zone >= 0
                            THEN [zt EXCEPT ![zone + 1] = @ + duration]
                            ELSE zt)

\* db.go 303-324: DELETE the activity's rows, then INSERT the zones with
\* timeSeconds > 0, in one transaction
ReplaceZoneRows(tbl, id, zt) ==
    {r \in tbl : r.activity_id # id}
    \cup {[activity_id |-> id, zone |-> z, time_seconds |-> zt[z]] :
            z \in {y \in 1..Len(zt) : zt[y] > 0}}

\* CalculateHRZonesForActivity without the return on maxHR == 0
CalculateHRZonesForActivity_NoMaxHRGuard(tbl, activityID, maxHR, rows) ==
    IF Len(rows) < 2 THEN [hr_zones |-> tbl, err |-> "nil"]
    ELSE [hr_zones |-> ReplaceZoneRows(tbl, activityID,
                           StoredZoneLoop(rows, maxHR, 1, <<0, 0, 0, 0, 0>>)),
          err      |-> "nil"]

\* CalculateHRZonesForActivity on table hr_zones; rows is what its query
\* returned
CalculateHRZonesForActivity(tbl, activityID, maxHR, rows) ==
    IF maxHR = 0 THEN [hr_zones |-> tbl, err |-> "nil"]
    ELSE IF Len(rows) < 2 THEN [hr_zones |-> tbl, err |-> "nil"]
    ELSE [hr_zones |-> ReplaceZoneRows(tbl, activityID,
                           StoredZoneLoop(rows, maxHR, 1, <<0, 0, 0, 0, 0>>)),
          err      |-> "nil"]

----------------------------------------------------------------------------
(* internal/importer/ingest.go *)

\* hex(sha1(bytes)): equal exactly for equal contents
FileHash(f) == <<"sha1", f>>

\* IngestFile lines 45-78: the transaction, on the tables t
IngestTx(t, p, hash) ==
    LET ins == InsertActivity(t.activities, p.act, hash)
        zs  == InsertHRZones(t.hr_zones, ins.id, p.zones, 1)
    IN
    IF p.act.FitUID # <<>> /\ LookupActivityByUID(t.activities, p.act.FitUID)
    THEN [t |-> t, id |-> 0, err |-> ErrDuplicate]
    ELSE IF LookupActivityByHash(t.activities, hash)
    THEN [t |-> t, id |-> 0, err |-> ErrDuplicate]
    ELSE IF ins.err # "nil" THEN [t |-> t, id |-> 0, err |-> ins.err]
    ELSE IF Len(p.zones) > 0 /\ zs.err # "nil" THEN [t |-> t, id |-> 0, err |-> zs.err]
    ELSE [t   |-> [activities |-> ins.tbl,
                   records    |-> InsertRecords(t.records, ins.id, p.recs),
                   laps       |-> InsertLaps(t.laps, ins.id, p.laps),
                   hr_zones   |-> IF Len(p.zones) > 0 THEN zs.tbl ELSE t.hr_zones,
                   agg_daily  |-> UpsertDailyAgg(t.agg_daily, p.act.StartTimeUTC, p.act)],
          id  |-> ins.id,
          err |-> "nil"]

Tables ==
    [activities |-> activities, records |-> records, laps |-> laps,
     hr_zones |-> hr_zones, agg_daily |-> agg_daily]

\* IngestAfterParse going on to the transaction whatever ParseFIT returned
IngestAfterParse_IgnoresError(t, p, hash) == IngestTx(t, p, hash)

\* IngestFile lines 42-78: if err != nil { return err }, then the transaction
IngestAfterParse(t, p, hash) ==
    IF p.err # "nil" THEN [t |-> t, id |-> 0, err |-> p.err]
    ELSE IngestTx(t, p, hash)

\* IngestFile(db, rawStore, src)
IngestFile ==
    LET p == ParseFIT(file) IN
    /\ uarg.fn = "none"
    /\ IF file.status = "missing"
       THEN \* os.Stat(src) fails before anything is parsed
            /\ call' = [op |-> "IngestFile", activityID |-> 0, maxHR |-> 0,
                        err |-> "stat", before |-> hr_zones]
            /\ UNCHANGED <<parsed, zoneTimes, activities, records, laps,
                           hr_zones, agg_daily>>
       ELSE /\ parsed' = p
            /\ zoneTimes' = IF p.err = "nil" /\ Len(file.sessions) > 0
                            THEN AccumulatorsOf(p.recs, p.act.MaxHR)
                            ELSE <<>>
            /\ LET r == IngestAfterParse(Tables, p, FileHash(file)) IN
               /\ activities' = r.t.activities
               /\ records' = r.t.records
               /\ laps' = r.t.laps
               /\ hr_zones' = r.t.hr_zones
               /\ agg_daily' = r.t.agg_daily
               /\ call' = [op |-> "IngestFile", activityID |-> r.id,
                           maxHR |-> 0, err |-> r.err, before |-> hr_zones]
    /\ UNCHANGED <<file, uarg, uout>>
    /\ UNCHANGED besideCore

----------------------------------------------------------------------------
(* internal/web/handlers_import.go *)

\* the files that arrive by upload: they have contents, and they are the
\* ones without heart-rate variation
IsUploadedFile(f) ==
    /\ f.status # "missing"
    /\ \/ f.status # "ok"
       \/ Len(f.sessions) = 0
       \/ \A i \in 1..Len(f.records) : f.records[i].HeartRate = 150

\* fmt.Sprintf("%x", sha256.Sum256(data)): equal exactly for equal contents
UploadHash(f) == <<"sha256", f>>

\* processFITFile lines 266-312: the transaction, on the tables t
UploadTx(t, p, hash) ==
    LET ins == InsertActivity(t.activities, p.act, hash)
        zs  == InsertHRZones(t.hr_zones, ins.id, p.zones, 1)
    IN
    IF LookupActivityByUID(t.activities, p.act.FitUID)
    THEN [t |-> t, id |-> 0, err |-> "activity already exists"]
    ELSE IF ins.err # "nil" THEN [t |-> t, id |-> 0, err |-> ins.err]
    ELSE IF Len(p.zones) > 0 /\ zs.err # "nil" THEN [t |-> t, id |-> 0, err |-> zs.err]
    ELSE [t   |-> [activities |-> ins.tbl,
                   records    |-> InsertRecords(t.records, ins.id, p.recs),
                   laps       |-> InsertLaps(t.laps, ins.id, p.laps),
                   hr_zones   |-> IF Len(p.zones) > 0 THEN zs.tbl ELSE t.hr_zones,
                   agg_daily  |-> UpsertDailyAgg(t.agg_daily, p.act.StartTimeUTC, p.act)],
          id  |-> ins.id,
          err |-> "nil"]

\* processFITFile(data, filename, hash): the raw file is written and parsed,
\* removed again if ParseFIT fails, and stored by the transaction otherwise
processFITFile(t, p, hash) ==
    IF p.err # "nil" THEN [t |-> t, id |-> 0, err |-> p.err]
    ELSE UploadTx(t, p, hash)

\* handleUpload lines 166-213 for one uploaded file: the hash, the check for
\* a stored file of that hash, and processFITFile
UploadFile ==
    LET p == ParseFIT(file) IN
    /\ uarg.fn = "none"
    /\ IsUploadedFile(file)
    /\ IF LookupActivityByHash(activities, UploadHash(file))
       THEN /\ call' = [op |-> "handleUpload", activityID |-> 0, maxHR |-> 0,
                        err |-> "duplicate file", before |-> hr_zones]
            /\ UNCHANGED <<parsed, zoneTimes, activities, records, laps,
                           hr_zones, agg_daily>>
       ELSE LET r == processFITFile(Tables, p, UploadHash(file)) IN
            /\ parsed' = p
            /\ zoneTimes' = IF p.err = "nil" /\ Len(file.sessions) > 0
                            THEN AccumulatorsOf(p.recs, p.act.MaxHR)
                            ELSE <<>>
            /\ activities' = r.t.activities
            /\ records' = r.t.records
            /\ laps' = r.t.laps
            /\ hr_zones' = r.t.hr_zones
            /\ agg_daily' = r.t.agg_daily
            /\ call' = [op |-> "processFITFile", activityID |-> r.id,
                        maxHR |-> 0, err |-> r.err, before |-> hr_zones]
    /\ UNCHANGED <<file, uarg, uout>>
    /\ UNCHANGED besideCore

\* the max-HR values the recompute entry point is called with
RecomputeMaxHR == {0, 200}

\* a call of CalculateHRZonesForActivity(activityID, maxHR) on a stored activity
Recompute ==
    /\ uarg.fn = "none"
    /\ \E a \in activities, maxHR \in RecomputeMaxHR :
         \E rows \in QueryHRRecords(records, a.id) :
            LET r == CalculateHRZonesForActivity(hr_zones, a.id, maxHR, rows) IN
            /\ hr_zones' = r.hr_zones
            /\ call' = [op |-> "CalculateHRZonesForActivity", activityID |-> a.id,
                        maxHR |-> maxHR, err |-> r.err, before |-> hr_zones]
    /\ UNCHANGED <<file, parsed, zoneTimes, activities, records, laps, agg_daily,
                   uarg, uout>>
    /\ UNCHANGED besideCore

----------------------------------------------------------------------------
(* The files the importer is given. *)

\* a session message
Session(avgHR, maxHR) ==
    [StartTime |-> 90000, TotalTimerTime |-> 3661000, TotalDistance |-> 1005000,
     AvgSpeed |-> 3500, AvgHeartRate |-> avgHR, MaxHeartRate |-> maxHR,
     TotalTrainingEffect |-> 32, TotalAnaerobicTrainingEffect |-> 0]

\* a record message
RawRecord(ts, hr, lat, lon) ==
    [Timestamp |-> ts, HeartRate |-> hr, PositionLat |-> lat, PositionLong |-> lon,
     Speed |-> 3500, Altitude |-> 2500, Cadence |-> 0, Temperature |-> -5,
     Power |-> 0]

\* a lap message
RawLap(avgHR, maxHR) ==
    [StartTime |-> 90000, TotalTimerTime |-> 3661000, TotalDistance |-> 1005000,
     AvgSpeed |-> 3500, AvgHeartRate |-> avgHR, MaxHeartRate |-> maxHR]

\* a file that fit.Decode and fd.Activity accept
DecodedFile(sessions, recs, lps) ==
    [status |-> "ok", sessions |-> sessions, records |-> recs, laps |-> lps]

\* a file os.Stat / os.Open reject, and one fit.Decode rejects
MissingFile == [status |-> "missing", sessions |-> <<>>, records |-> <<>>, laps |-> <<>>]

MalformedFile == [status |-> "malformed", sessions |-> <<>>, records |-> <<>>, laps |-> <<>>]

\* a file fit.Decode accepts and fd.Activity rejects
WrongTypeFile == [status |-> "wrongtype", sessions |-> <<>>, records |-> <<>>, laps |-> <<>>]

\* a valid file without a session message
NoSessionFile == DecodedFile(<<>>, <<>>, <<>>)

\* a valid file with a record and a lap message and no session message
OrphanRecordsFile ==
    DecodedFile(<<>>, <<RawRecord(90000, 150, 268435456, 268435456)>>,
                <<RawLap(150, 200)>>)

\* raw heart-rate bytes of the record messages, raw session maxima, and the
\* steps between the timestamps of successive record messages
RecordHRBytes == {140, 150, 160, 200, 255}

SessionMaxBytes == {0, 200}

TimestampSteps == {10, -10}

\* the timestamp of the i-th record message: the session start plus the steps
RECURSIVE StampAt(_, _)
StampAt(steps, i) == IF i <= 1 THEN 90000 ELSE StampAt(steps, i - 1) + steps[i - 1]

\* a file of the heart-rate family: session maximum m, and as many record
\* messages as hrs has heart rates, their timestamps apart by steps
HRFile(m, hrs, steps) ==
    DecodedFile(<<Session(150, m)>>,
                [i \in 1..Len(hrs) |-> RawRecord(StampAt(steps, i), hrs[i], 0, 0)],
                <<RawLap(150, 255)>>)

\* raw semicircle values of one axis: 0, 18 deg, 22.5 deg, 90 deg, just above
\* 90 deg, -180 deg
RawAxes == {0, 214748364, 268435456, 1073741824, 1073741825, -2147483647 - 1}

\* a file of the position family: record messages 10 s apart with the raw
\* axes lats and lons
PosFile(lats, lons) ==
    DecodedFile(<<Session(150, 200)>>,
                [i \in 1..Len(lats) |->
                    RawRecord(90000 + 10 * (i - 1), 150, lats[i], lons[i])],
                <<>>)

\* the heart-rate series [(0,140),(10,150),(20,255),(30,160)] with max_hr = 200
ScenarioFile ==
    DecodedFile(<<Session(150, 200)>>,
                <<RawRecord(90000, 140, 0, 0), RawRecord(90010, 150, 0, 0),
                  RawRecord(90020, 255, 0, 0), RawRecord(90030, 160, 0, 0)>>,
                <<RawLap(150, 255)>>)

\* the file is one of the heart-rate family, one of the position family, the
\* scenario, a file without a session, or one that cannot be opened, decoded
\* or read as an activity file
IsInputFile(f) ==
    \/ \E n \in 0..MaxRecs, m \in SessionMaxBytes :
          \E hrs \in [1..n -> RecordHRBytes], steps \in [1..(n - 1) -> TimestampSteps] :
             f = HRFile(m, hrs, steps)
    \/ \E n \in 1..MaxPosRecs :
          \E lats \in [1..n -> RawAxes], lons \in [1..n -> RawAxes] :
             f = PosFile(lats, lons)
    \/ f \in {ScenarioFile, MissingFile, MalformedFile, WrongTypeFile,
               NoSessionFile, OrphanRecordsFile}

----------------------------------------------------------------------------
(* The importer and the recompute entry point on one file. *)

\* var recs []Record, var laps []Lap and zones before they are assigned
NoLocals == [act |-> ZeroActivity, recs |-> <<>>, laps |-> <<>>, zones |-> <<>>]

\* no call of ParseFIT is being stepped through
StepIdle == pc = "idle" /\ locals = NoLocals /\ stages = <<>>

\* no concurrent calls of ParseFIT are running
ParIdle == pfile = <<>> /\ ppc = <<>> /\ plocals = <<>> /\ pout = <<>>

\* no concurrent ingestions are running
IngIdle ==
    /\ ifile = <<>>
    /\ ivia = <<>>
    /\ ipc = <<>>
    /\ iparsed = <<>>
    /\ itx = <<>>
    /\ iid = <<>>
    /\ ierr = <<>>
    /\ locks = <<>>

\* no manual import has been requested
ImportIdle ==
    /\ hpc = <<>>
    /\ hstatus = <<>>
    /\ importBusy = 0
    /\ im = FALSE

\* nothing is logged and nobody listens
LogIdle ==
    /\ lpc = <<>>
    /\ mu = 0
    /\ lines = <<>>
    /\ subs = {}
    /\ chans = <<>>
    /\ closed = {}
    /\ todo = <<>>
    /\ cur = <<>>
    /\ got = <<>>
    /\ missed = <<>>
    /\ printed = 0
    /\ panicked = FALSE

\* nobody is signed in
AuthIdle ==
    /\ sessionRows = {}
    /\ created = 0
    /\ apc = "idle"
    /\ auser = 0
    /\ anew = <<>>
    /\ amsg = ""
    /\ abefore = {}

\* no web handler is running
WebIdle == ImportIdle /\ LogIdle /\ AuthIdle

BesideCoreIdle == StepIdle /\ ParIdle /\ IngIdle /\ WebIdle

BesideStepIdle == ParIdle /\ IngIdle /\ WebIdle

NotCalled ==
    [op |-> "none", activityID |-> 0, maxHR |-> 0, err |-> "nil", before |-> {}]

Init ==
    /\ IsInputFile(file)
    /\ parsed = Failure("not called")
    /\ zoneTimes = <<>>
    /\ activities = {}
    /\ records = <<>>
    /\ laps = <<>>
    /\ hr_zones = {}
    /\ agg_daily = {}
    /\ call = NotCalled
    /\ uarg = [fn |-> "none"]
    /\ uout = <<>>
    /\ BesideCoreIdle

Next == IngestFile \/ UploadFile \/ Recompute

Spec == Init /\ [][Next]_vars

----------------------------------------------------------------------------
(* Unit level: one call of the zone computation on one pair of samples, and *)
(* one pass of ParseFIT over a file whose heart-rate fields all hold one    *)
(* raw byte.                                                                *)

\* the seconds between the two samples of the pair
PairSeconds == 10

\* two heart-rate samples PairSeconds apart, both reading hr
PairOf(hr) ==
    <<[TOffsetS |-> 0, Lat |-> None, Lon |-> None, SpeedMPS |-> None,
       ElevM |-> None, HR |-> Some(hr), Cad |-> None, TempC |-> None,
       PowerW |-> None],
      [TOffsetS |-> PairSeconds, Lat |-> None, Lon |-> None, SpeedMPS |-> None,
       ElevM |-> None, HR |-> Some(hr), Cad |-> None, TempC |-> None,
       PowerW |-> None]>>

\* a file with one session, one lap and one record message, every heart-rate
\* field of which holds the raw byte b
ByteFile(b) ==
    DecodedFile(<<Session(b, b)>>, <<RawRecord(90010, b, 0, 0)>>, <<RawLap(b, b)>>)

\* raw values of the session and lap fields total_timer_time, total_distance
\* and avg_speed, and of the two training-effect bytes
TimerRaws == {0, 999, 1000, 3661000, 3661999}

DistanceRaws == {0, 99, 100, 1005000, 1005099}

AvgSpeedRaws == {0, 1, 3500, 65535}

EffectBytes == {0, 1, 50, 51, 254, 255}

\* a file whose session and lap hold the raw totals, and whose session holds
\* the raw training-effect bytes
SummaryFile(timer, dist, spd, te, ate) ==
    DecodedFile(<<[Session(150, 200) EXCEPT
                      !.TotalTimerTime = timer, !.TotalDistance = dist,
                      !.AvgSpeed = spd, !.TotalTrainingEffect = te,
                      !.TotalAnaerobicTrainingEffect = ate]>>,
                <<>>,
                <<[RawLap(150, 200) EXCEPT
                      !.TotalTimerTime = timer, !.TotalDistance = dist,
                      !.AvgSpeed = spd]>>)

\* raw values of the record fields speed, altitude, cadence, temperature
\* (int8) and power
RecordSpeedRaws == {0, 1, 3500, 65535}

AltitudeRaws == {0, 1, 2500, 2501, 65535}

CadenceRaws == {0, 1, 90, 255}

TemperatureRaws == {-128, -5, 0, 1, 127}

PowerRaws == {0, 1, 250, 65535}

\* a file with one record message holding the raw sensor values
RecordFile(spd, alt, cad, temp, pow) ==
    DecodedFile(<<Session(150, 200)>>,
                <<[RawRecord(90010, 150, 0, 0) EXCEPT
                      !.Speed = spd, !.Altitude = alt, !.Cadence = cad,
                      !.Temperature = temp, !.Power = pow]>>,
                <<>>)

UnitArgs ==
    {[fn |-> "zones", hr |-> h, maxHR |-> m] : h \in 1..254, m \in 0..254}
    \cup {[fn |-> "hr", raw |-> b] : b \in 0..255}
    \cup {[fn |-> "parse", file |-> SummaryFile(t, d, v, 32, 0)] :
             t \in TimerRaws, d \in DistanceRaws, v \in AvgSpeedRaws}
    \cup {[fn |-> "parse", file |-> SummaryFile(3661000, 1005000, 3500, a, n)] :
             a \in 0..255, n \in EffectBytes}
    \cup {[fn |-> "parse", file |-> SummaryFile(3661000, 1005000, 3500, a, n)] :
             a \in EffectBytes, n \in 0..255}
    \cup {[fn |-> "parse", file |-> RecordFile(v, h, c, t, p)] :
             v \in RecordSpeedRaws, h \in AltitudeRaws, c \in CadenceRaws,
             t \in TemperatureRaws, p \in PowerRaws}

InitUnit ==
    /\ uarg \in UnitArgs
    /\ uout = <<>>
    /\ file = MissingFile
    /\ parsed = Failure("not called")
    /\ zoneTimes = <<>>
    /\ activities = {}
    /\ records = <<>>
    /\ laps = <<>>
    /\ hr_zones = {}
    /\ agg_daily = {}
    /\ call = NotCalled
    /\ BesideCoreIdle

\* calculateHRZones on the pair, and CalculateHRZonesForActivity on the pair
\* stored as the records of activity 1
UnitZones ==
    /\ uarg.fn = "zones"
    /\ uout = <<>>
    /\ \E rows \in QueryHRRecords(InsertRecords(<<>>, 1, PairOf(uarg.hr)), 1) :
         LET r == CalculateHRZonesForActivity({}, 1, uarg.maxHR, rows) IN
         uout' = <<[zones  |-> calculateHRZones(PairOf(uarg.hr), uarg.maxHR),
                    stored |-> GetHRZones(r.hr_zones, 1),
                    err    |-> r.err]>>
    /\ UNCHANGED <<file, parsed, zoneTimes, activities, records, laps, hr_zones,
                   agg_daily, call, uarg>>
    /\ UNCHANGED besideCore

\* ParseFIT on the file built from one raw heart-rate byte
UnitHeartRate ==
    /\ uarg.fn = "hr"
    /\ uout = <<>>
    /\ uout' = <<ParseFIT(ByteFile(uarg.raw))>>
    /\ UNCHANGED <<file, parsed, zoneTimes, activities, records, laps, hr_zones,
                   agg_daily, call, uarg>>
    /\ UNCHANGED besideCore

\* ParseFIT on a file built from raw session, lap or record values
UnitParse ==
    /\ uarg.fn = "parse"
    /\ uout = <<>>
    /\ uout' = <<ParseFIT(uarg.file)>>
    /\ UNCHANGED <<file, parsed, zoneTimes, activities, records, laps, hr_zones,
                   agg_daily, call, uarg>>
    /\ UNCHANGED besideCore

NextUnit == UnitZones \/ UnitHeartRate \/ UnitParse

SpecUnit == InitUnit /\ [][NextUnit]_vars

----------------------------------------------------------------------------
(* Step level: one call of ParseFIT, statement by statement.  The call      *)
(* starts in stage Opened with the path it was given; Decoded is entered     *)
(* when the activity file and its messages are in hand, Normalized when      *)
(* meta, recs and laps are built, ZonesComputed when calculateHRZones has    *)
(* returned, Done at a return with a nil error and Failed at a return with   *)
(* an error.                                                                 *)

InitStages ==
    /\ IsInputFile(file)
    /\ pc = "os.Open"
    /\ stages = <<"Opened">>
    /\ locals = NoLocals
    /\ parsed = Failure("not called")
    /\ zoneTimes = <<>>
    /\ activities = {}
    /\ records = <<>>
    /\ laps = <<>>
    /\ hr_zones = {}
    /\ agg_daily = {}
    /\ call = NotCalled
    /\ uarg = [fn |-> "steps"]
    /\ uout = <<>>
    /\ BesideStepIdle

\* what a step of ParseFIT leaves alone
StepFrame ==
    UNCHANGED <<file, zoneTimes, activities, records, laps, hr_zones, agg_daily,
                call, uarg, uout, besideStep>>

\* return Activity{}, nil, nil, nil, err
ReturnError(e) ==
    /\ parsed' = Failure(e)
    /\ stages' = Append(stages, "Failed")
    /\ pc' = "returned"
    /\ UNCHANGED locals

\* lines 60-61: f, err := os.Open(path)
OpenFile ==
    /\ pc = "os.Open"
    /\ IF file.status = "missing"
       THEN ReturnError("open")
       ELSE pc' = "fit.Decode" /\ UNCHANGED <<parsed, stages, locals>>
    /\ StepFrame

\* DecodeFile going back to os.Open when fit.Decode fails
DecodeFile_Retries ==
    /\ pc = "fit.Decode"
    /\ IF file.status = "malformed"
       THEN /\ pc' = "os.Open"
            /\ stages' = Append(stages, "Opened")
            /\ UNCHANGED <<parsed, locals>>
       ELSE pc' = "fd.Activity" /\ UNCHANGED <<parsed, stages, locals>>
    /\ StepFrame

\* lines 64-65: fd, err := fit.Decode(f)
DecodeFile ==
    /\ pc = "fit.Decode"
    /\ IF file.status = "malformed"
       THEN ReturnError("decode")
       ELSE pc' = "fd.Activity" /\ UNCHANGED <<parsed, stages, locals>>
    /\ StepFrame

\* lines 67-68: af, err := fd.Activity()
ActivityOf ==
    /\ pc = "fd.Activity"
    /\ IF file.status = "wrongtype"
       THEN ReturnError("activity")
       ELSE /\ pc' = "len(af.Sessions)"
            /\ stages' = Append(stages, "Decoded")
            /\ UNCHANGED <<parsed, locals>>
    /\ StepFrame

\* lines 69-72: if len(af.Sessions) == 0 { return Activity{}, nil, nil, nil, nil }
CheckSessions ==
    /\ pc = "len(af.Sessions)"
    /\ IF Len(file.sessions) = 0
       THEN /\ parsed' = NoSessionResult
            /\ stages' = Append(stages, "Done")
            /\ pc' = "returned"
            /\ UNCHANGED locals
       ELSE pc' = "meta" /\ UNCHANGED <<parsed, stages, locals>>
    /\ StepFrame

\* lines 74-162: meta, the record loop and the lap loop
Normalize ==
    /\ pc = "meta"
    /\ LET s == file.sessions[1] IN
       locals' = [locals EXCEPT
                    !.act  = NormalizeSession(s),
                    !.recs = [i \in 1..Len(file.records) |->
                                 NormalizeRecord(file.records[i], s.StartTime)],
                    !.laps = [i \in 1..Len(file.laps) |->
                                 NormalizeLap(file.laps[i], i - 1, s.StartTime)]]
    /\ stages' = Append(stages, "Normalized")
    /\ pc' = "calculateHRZones"
    /\ UNCHANGED parsed
    /\ StepFrame

\* line 165: zones := calculateHRZones(recs, meta.MaxHR)
ComputeZones ==
    /\ pc = "calculateHRZones"
    /\ locals' = [locals EXCEPT
                    !.zones = calculateHRZones(locals.recs, locals.act.MaxHR)]
    /\ stages' = Append(stages, "ZonesComputed")
    /\ pc' = "return"
    /\ UNCHANGED parsed
    /\ StepFrame

\* line 167: return meta, recs, laps, zones, nil
Return ==
    /\ pc = "return"
    /\ parsed' = [act |-> locals.act, recs |-> locals.recs, laps |-> locals.laps,
                  zones |-> locals.zones, err |-> "nil"]
    /\ stages' = Append(stages, "Done")
    /\ pc' = "returned"
    /\ UNCHANGED locals
    /\ StepFrame

NextStages ==
    \/ OpenFile
    \/ DecodeFile
    \/ ActivityOf
    \/ CheckSessions
    \/ Normalize
    \/ ComputeZones
    \/ Return

\* ParseFIT is straight-line code over finite loops: a call that has not
\* returned takes its next step
SpecStages == InitStages /\ [][NextStages]_vars /\ WF_vars(NextStages)

----------------------------------------------------------------------------
(* Concurrent calls of ParseFIT, statement by statement.  Each goroutine    *)
(* calls ParseFIT on its own file; the statements of the calls interleave.  *)

\* the goroutines calling ParseFIT
Procs == {1, 2}

\* the files of the concurrent calls
ParallelFiles ==
    {ScenarioFile, MissingFile, MalformedFile, WrongTypeFile, NoSessionFile,
     OrphanRecordsFile}
    \cup {HRFile(m, <<h, 150>>, <<10>>) : m \in SessionMaxBytes, h \in RecordHRBytes}

\* FrameOf with one frame for every call
FrameOf_Shared(p) == 1

\* the frame that holds the variables meta, recs, laps and zones of call p:
\* they are locals of ParseFIT, so every call has its own
FrameOf(p) == p

InitParallel ==
    /\ pfile \in [Procs -> ParallelFiles]
    /\ ppc = [p \in Procs |-> "os.Open"]
    /\ plocals = [p \in Procs |-> NoLocals]
    /\ pout = [p \in Procs |-> Failure("not called")]
    /\ file = MissingFile
    /\ parsed = Failure("not called")
    /\ zoneTimes = <<>>
    /\ activities = {}
    /\ records = <<>>
    /\ laps = <<>>
    /\ hr_zones = {}
    /\ agg_daily = {}
    /\ call = NotCalled
    /\ uarg = [fn |-> "parallel"]
    /\ uout = <<>>
    /\ StepIdle
    /\ IngIdle
    /\ WebIdle

\* what a statement of a concurrent call leaves alone
ParallelFrame == UNCHANGED <<besidePar, pfile>>

\* call p returns the error e
PReturnError(p, e) ==
    /\ pout' = [pout EXCEPT ![p] = Failure(e)]
    /\ ppc' = [ppc EXCEPT ![p] = "returned"]
    /\ UNCHANGED plocals

\* call p goes on to the statement at
PGoto(p, at) ==
    /\ ppc' = [ppc EXCEPT ![p] = at]
    /\ UNCHANGED <<plocals, pout>>

\* lines 60-61 in call p
POpenFile(p) ==
    /\ ppc[p] = "os.Open"
    /\ IF pfile[p].status = "missing"
       THEN PReturnError(p, "open") ELSE PGoto(p, "fit.Decode")
    /\ ParallelFrame

\* lines 64-65 in call p
PDecodeFile(p) ==
    /\ ppc[p] = "fit.Decode"
    /\ IF pfile[p].status = "malformed"
       THEN PReturnError(p, "decode") ELSE PGoto(p, "fd.Activity")
    /\ ParallelFrame

\* lines 67-68 in call p
PActivityOf(p) ==
    /\ ppc[p] = "fd.Activity"
    /\ IF pfile[p].status = "wrongtype"
       THEN PReturnError(p, "activity") ELSE PGoto(p, "len(af.Sessions)")
    /\ ParallelFrame

\* lines 69-72 in call p
PCheckSessions(p) ==
    /\ ppc[p] = "len(af.Sessions)"
    /\ IF Len(pfile[p].sessions) = 0
       THEN /\ pout' = [pout EXCEPT ![p] = NoSessionResult]
            /\ ppc' = [ppc EXCEPT ![p] = "returned"]
            /\ UNCHANGED plocals
       ELSE PGoto(p, "meta")
    /\ ParallelFrame

\* lines 74-162 in call p
PNormalize(p) ==
    /\ ppc[p] = "meta"
    /\ LET f == pfile[p]
           s == f.sessions[1]
       IN  plocals' = [plocals EXCEPT ![FrameOf(p)] =
                          [act   |-> NormalizeSession(s),
                           recs  |-> [i \in 1..Len(f.records) |->
                                        NormalizeRecord(f.records[i], s.StartTime)],
                           laps  |-> [i \in 1..Len(f.laps) |->
                                        NormalizeLap(f.laps[i], i - 1, s.StartTime)],
                           zones |-> <<>>]]
    /\ ppc' = [ppc EXCEPT ![p] = "calculateHRZones"]
    /\ UNCHANGED pout
    /\ ParallelFrame

\* line 165 in call p
PComputeZones(p) ==
    /\ ppc[p] = "calculateHRZones"
    /\ LET l == plocals[FrameOf(p)] IN
       plocals' = [plocals EXCEPT ![FrameOf(p)] =
                      [l EXCEPT !.zones = calculateHRZones(l.recs, l.act.MaxHR)]]
    /\ ppc' = [ppc EXCEPT ![p] = "return"]
    /\ UNCHANGED pout
    /\ ParallelFrame

\* line 167 in call p
PReturn(p) ==
    /\ ppc[p] = "return"
    /\ LET l == plocals[FrameOf(p)] IN
       pout' = [pout EXCEPT ![p] =
                   [act |-> l.act, recs |-> l.recs, laps |-> l.laps,
                    zones |-> l.zones, err |-> "nil"]]
    /\ ppc' = [ppc EXCEPT ![p] = "returned"]
    /\ UNCHANGED plocals
    /\ ParallelFrame

NextParallel ==
    \E p \in Procs :
        \/ POpenFile(p)
        \/ PDecodeFile(p)
        \/ PActivityOf(p)
        \/ PCheckSessions(p)
        \/ PNormalize(p)
        \/ PComputeZones(p)
        \/ PReturn(p)

SpecParallel == InitParallel /\ [][NextParallel]_vars

----------------------------------------------------------------------------
(* Concurrent ingestions, statement by statement.  Each goroutine ingests   *)
(* one file after another, by IngestFile (the directory scan) or by          *)
(* handleUpload and processFITFile (the web upload).  The statements of a    *)
(* transaction run on its own view of the tables, and the view replaces the  *)
(* tables at Commit.  SQLite lets any transaction read, lets one at a time   *)
(* write, and commits a writer only when no other transaction has read;      *)
(* a statement that cannot have its lock, or fails otherwise, returns an     *)
(* error.                                                                    *)

Goroutines == {1, 2}

\* the entry points of an ingestion
Vias == {"IngestFile", "handleUpload"}

\* an activity, two files without a session, and a file that cannot be decoded
IngestFiles == {ScenarioFile, NoSessionFile, OrphanRecordsFile, MalformedFile}

NoLocks == [readers |-> {}, writer |-> 0]

InitIngest ==
    /\ file = MissingFile
    /\ parsed = Failure("not called")
    /\ zoneTimes = <<>>
    /\ activities = {}
    /\ records = <<>>
    /\ laps = <<>>
    /\ hr_zones = {}
    /\ agg_daily = {}
    /\ call = NotCalled
    /\ uarg = [fn |-> "ingestions"]
    /\ uout = <<>>
    /\ StepIdle
    /\ ParIdle
    /\ WebIdle
    /\ ifile = [p \in Goroutines |-> MissingFile]
    /\ ivia = [p \in Goroutines |-> "IngestFile"]
    /\ ipc = [p \in Goroutines |-> "idle"]
    /\ iparsed = [p \in Goroutines |-> Failure("not called")]
    /\ itx = [p \in Goroutines |-> <<>>]
    /\ iid = [p \in Goroutines |-> 0]
    /\ ierr = [p \in Goroutines |-> "not called"]
    /\ locks = NoLocks

tableVars == <<activities, records, laps, hr_zones, agg_daily>>

IngestFrame ==
    UNCHANGED <<file, parsed, zoneTimes, call, uarg, uout, stepVars, parVars,
                webVars>>

\* the hash under which a goroutine stores its file
HashOf(p) == IF ivia[p] = "IngestFile" THEN FileHash(ifile[p]) ELSE UploadHash(ifile[p])

\* the tables as the statements of p's transaction see them
View(p) == IF locks.writer = p THEN itx[p] ELSE Tables

CanWrite(p) == locks.writer \in {0, p}

CanCommit(p) == locks.readers \subseteq {p}

Released(p) ==
    [readers |-> locks.readers \ {p},
     writer  |-> IF locks.writer = p THEN 0 ELSE locks.writer]

ReadBy(p) == [locks EXCEPT !.readers = @ \cup {p}]

WrittenBy(p) == [readers |-> locks.readers \cup {p}, writer |-> p]

\* a handler that goes on whatever its statement returned
Checked_Ignored(err) == FALSE

\* if err != nil { return err }
Checked(err) == err # "nil"

\* the function given to WithTx returns e and WithTx rolls back, or the
\* handler returns before its transaction
IReturn(p, e) ==
    /\ ipc' = [ipc EXCEPT ![p] = "returned"]
    /\ ierr' = [ierr EXCEPT ![p] = e]
    /\ iparsed' = [iparsed EXCEPT ![p] = Failure("not called")]
    /\ itx' = [itx EXCEPT ![p] = <<>>]
    /\ iid' = [iid EXCEPT ![p] = 0]
    /\ locks' = Released(p)
    /\ UNCHANGED <<ifile, ivia>>

\* the next statement of the transaction
IGoto(p, at) ==
    /\ ipc' = [ipc EXCEPT ![p] = at]
    /\ UNCHANGED <<ifile, ivia, ierr, iparsed>>

\* the statement after ParseFIT has returned parsed
AfterParse(p, via, prs) ==
    IF via = "IngestFile" /\ prs.act.FitUID = <<>> THEN "LookupActivityByHash"
    ELSE "LookupActivityByUID"

\* a goroutine takes its next file: IngestFile parses it at once, handleUpload
\* hashes it first
IStart(p) ==
    /\ ipc[p] \in {"idle", "returned"}
    /\ \E f \in IngestFiles, via \in Vias :
          LET prs == ParseFIT(f) IN
          /\ ifile' = [ifile EXCEPT ![p] = f]
          /\ ivia' = [ivia EXCEPT ![p] = via]
          /\ IF via = "handleUpload"
             THEN /\ ipc' = [ipc EXCEPT ![p] = "isFileHashDuplicate"]
                  /\ ierr' = [ierr EXCEPT ![p] = "running"]
                  /\ UNCHANGED iparsed
             ELSE IF Checked(prs.err)
             THEN /\ ipc' = [ipc EXCEPT ![p] = "returned"]
                  /\ ierr' = [ierr EXCEPT ![p] = prs.err]
                  /\ UNCHANGED iparsed
             ELSE /\ ipc' = [ipc EXCEPT ![p] = AfterParse(p, via, prs)]
                  /\ ierr' = [ierr EXCEPT ![p] = "running"]
                  /\ iparsed' = [iparsed EXCEPT ![p] = prs]
    /\ UNCHANGED <<itx, iid, locks, tableVars>>
    /\ IngestFrame

\* handleUpload lines 195-206 and processFITFile lines 245-262: the query
\* outside any transaction, then the raw file written and parsed
IHashCheck(p) ==
    /\ ipc[p] = "isFileHashDuplicate"
    /\ \E failed \in BOOLEAN :
          LET prs == ParseFIT(ifile[p]) IN
          IF failed THEN IReturn(p, "exec")
          ELSE IF LookupActivityByHash(activities, HashOf(p))
          THEN IReturn(p, "duplicate file")
          ELSE IF Checked(prs.err) THEN IReturn(p, prs.err)
          ELSE /\ ipc' = [ipc EXCEPT ![p] = AfterParse(p, ivia[p], prs)]
               /\ iparsed' = [iparsed EXCEPT ![p] = prs]
               /\ UNCHANGED <<ifile, ivia, ierr, itx, iid, locks>>
    /\ UNCHANGED tableVars
    /\ IngestFrame

\* ingest.go lines 47-51, processFITFile lines 269-274: a lookup that fails
\* counts as no row found
ILookupUID(p) ==
    /\ ipc[p] = "LookupActivityByUID"
    /\ \E failed \in BOOLEAN :
          IF ~failed /\ LookupActivityByUID(View(p).activities, iparsed[p].act.FitUID)
          THEN IReturn(p, IF ivia[p] = "IngestFile" THEN ErrDuplicate
                          ELSE "activity already exists")
          ELSE /\ IGoto(p, IF ivia[p] = "IngestFile" THEN "LookupActivityByHash"
                           ELSE "InsertActivity")
               /\ locks' = (IF failed THEN locks ELSE ReadBy(p))
               /\ UNCHANGED <<itx, iid>>
    /\ UNCHANGED tableVars
    /\ IngestFrame

\* ingest.go lines 53-56
ILookupHash(p) ==
    /\ ipc[p] = "LookupActivityByHash"
    /\ \E failed \in BOOLEAN :
          IF ~failed /\ LookupActivityByHash(View(p).activities, HashOf(p))
          THEN IReturn(p, ErrDuplicate)
          ELSE /\ IGoto(p, "InsertActivity")
               /\ locks' = (IF failed THEN locks ELSE ReadBy(p))
               /\ UNCHANGED <<itx, iid>>
    /\ UNCHANGED tableVars
    /\ IngestFrame

\* one writing statement of the transaction: it fails, or it runs on the view
\* and returns err; the handler returns err or goes on to the statement next
IStatement(p, failed, err, view, id, next) ==
    LET e == IF failed THEN "exec" ELSE err IN
    /\ failed \/ CanWrite(p)
    /\ IF Checked(e) THEN IReturn(p, e)
       ELSE /\ IGoto(p, next)
            /\ itx' = [itx EXCEPT ![p] = IF e = "nil" THEN view ELSE View(p)]
            /\ iid' = [iid EXCEPT ![p] = id]
            /\ locks' = (IF CanWrite(p) THEN WrittenBy(p) ELSE locks)
    /\ UNCHANGED tableVars
    /\ IngestFrame

IInsertActivity(p) ==
    /\ ipc[p] = "InsertActivity"
    /\ \E failed \in BOOLEAN :
          LET ins == InsertActivity(View(p).activities, iparsed[p].act, HashOf(p)) IN
          IStatement(p, failed, ins.err, [View(p) EXCEPT !.activities = ins.tbl],
                     ins.id, "InsertRecords")

IInsertRecords(p) ==
    /\ ipc[p] = "InsertRecords"
    /\ \E failed \in BOOLEAN :
          IStatement(p, failed, "nil",
                     [View(p) EXCEPT !.records = InsertRecords(@, iid[p], iparsed[p].recs)],
                     iid[p], "InsertLaps")

IInsertLaps(p) ==
    /\ ipc[p] = "InsertLaps"
    /\ \E failed \in BOOLEAN :
          IStatement(p, failed, "nil",
                     [View(p) EXCEPT !.laps = InsertLaps(@, iid[p], iparsed[p].laps)],
                     iid[p],
                     IF Len(iparsed[p].zones) > 0 THEN "InsertHRZones"
                     ELSE "UpsertDailyAgg")

IInsertHRZones(p) ==
    /\ ipc[p] = "InsertHRZones"
    /\ \E failed \in BOOLEAN :
          LET zs == InsertHRZones(View(p).hr_zones, iid[p], iparsed[p].zones, 1) IN
          IStatement(p, failed, zs.err, [View(p) EXCEPT !.hr_zones = zs.tbl],
                     iid[p], "UpsertDailyAgg")

IUpsertDailyAgg(p) ==
    /\ ipc[p] = "UpsertDailyAgg"
    /\ \E failed \in BOOLEAN :
          IStatement(p, failed, "nil",
                     [View(p) EXCEPT !.agg_daily =
                         UpsertDailyAgg(@, iparsed[p].act.StartTimeUTC, iparsed[p].act)],
                     iid[p], "Commit")

\* WithTx lines 81-85: the function returned nil and the transaction commits
ICommit(p) ==
    /\ ipc[p] = "Commit"
    /\ \E failed \in BOOLEAN :
          /\ failed \/ CanCommit(p)
          /\ IF failed
             THEN /\ IReturn(p, "commit")
                  /\ UNCHANGED tableVars
             ELSE /\ IReturn(p, "nil")
                  /\ activities' = View(p).activities
                  /\ records' = View(p).records
                  /\ laps' = View(p).laps
                  /\ hr_zones' = View(p).hr_zones
                  /\ agg_daily' = View(p).agg_daily
    /\ IngestFrame

NextIngest ==
    \E p \in Goroutines :
        \/ IStart(p)
        \/ IHashCheck(p)
        \/ ILookupUID(p)
        \/ ILookupHash(p)
        \/ IInsertActivity(p)
        \/ IInsertRecords(p)
        \/ IInsertLaps(p)
        \/ IInsertHRZones(p)
        \/ IUpsertDailyAgg(p)
        \/ ICommit(p)

SpecIngest == InitIngest /\ [][NextIngest]_vars

----------------------------------------------------------------------------
(* Recomputation of stored zones.  Files of two days are ingested one after  *)
(* the other, and CalculateHRZonesForActivity is called on a stored          *)
(* activity with any maximum heart rate; its query, its DELETE and the       *)
(* Prepare of its INSERT may each fail.                                      *)

\* the file a device records a day after f, with the same samples
DayLater(f) ==
    [f EXCEPT
       !.sessions = [i \in DOMAIN @ |-> [@[i] EXCEPT !.StartTime = @ + 86400]],
       !.records = [i \in DOMAIN @ |-> [@[i] EXCEPT !.Timestamp = @ + 86400]],
       !.laps = [i \in DOMAIN @ |-> [@[i] EXCEPT !.StartTime = @ + 86400]]]

FirstDayFiles ==
    {HRFile(200, <<150, 160>>, <<10>>), HRFile(200, <<150, 255>>, <<10>>),
     HRFile(0, <<150, 160>>, <<10>>), HRFile(200, <<140, 150, 200>>, <<10, 10>>)}

RecomputeFiles == FirstDayFiles \cup {DayLater(f) : f \in FirstDayFiles}

\* the maximum heart rates CalculateHRZonesForActivity is called with
MaxHRArgs == {0, 160, 200}

\* where a call of CalculateHRZonesForActivity fails, if it does
FailPoints == {"none", "query", "delete", "prepare"}

InitRecompute ==
    /\ file = MissingFile
    /\ parsed = Failure("not called")
    /\ zoneTimes = <<>>
    /\ activities = {}
    /\ records = <<>>
    /\ laps = <<>>
    /\ hr_zones = {}
    /\ agg_daily = {}
    /\ call = NotCalled
    /\ uarg = [fn |-> "recompute"]
    /\ uout = <<>>
    /\ BesideCoreIdle

\* the scan hands the next file to IngestFile
ScanFile ==
    /\ uarg.fn = "recompute"
    /\ \E f \in RecomputeFiles :
          LET p == ParseFIT(f)
              r == IngestAfterParse(Tables, p, FileHash(f))
          IN
          /\ file' = f
          /\ parsed' = p
          /\ zoneTimes' = IF p.err = "nil" /\ Len(f.sessions) > 0
                          THEN AccumulatorsOf(p.recs, p.act.MaxHR)
                          ELSE <<>>
          /\ activities' = r.t.activities
          /\ records' = r.t.records
          /\ laps' = r.t.laps
          /\ hr_zones' = r.t.hr_zones
          /\ agg_daily' = r.t.agg_daily
          /\ call' = [op |-> "IngestFile", activityID |-> r.id,
                      maxHR |-> 0, err |-> r.err, before |-> hr_zones]
    /\ UNCHANGED <<uarg, uout>>
    /\ UNCHANGED besideCore

\* DELETE FROM hr_zones WHERE activity_id = ?
DeleteZoneRows(tbl, id) == {r \in tbl : r.activity_id # id}

\* a transaction whose statements stay when its function returns an error
RolledBack_Kept(before, written) == written

\* WithTx lines 81-83: tx.Rollback() undoes what the function has written
RolledBack(before, written) == before

\* CalculateHRZonesForActivity with its failures: the query returns an error,
\* or the DELETE does, or the Prepare after the DELETE does
CalculateHRZonesForActivityTx(tbl, activityID, maxHR, rows, failAt) ==
    IF maxHR = 0 THEN [hr_zones |-> tbl, err |-> "nil"]
    ELSE IF failAt = "query" THEN [hr_zones |-> tbl, err |-> "query"]
    ELSE IF Len(rows) < 2 THEN [hr_zones |-> tbl, err |-> "nil"]
    ELSE IF failAt = "delete"
    THEN [hr_zones |-> RolledBack(tbl, tbl), err |-> "exec"]
    ELSE IF failAt = "prepare"
    THEN [hr_zones |-> RolledBack(tbl, DeleteZoneRows(tbl, activityID)), err |-> "exec"]
    ELSE CalculateHRZonesForActivity(tbl, activityID, maxHR, rows)

RecomputeTx ==
    /\ uarg.fn = "recompute"
    /\ \E a \in activities, maxHR \in MaxHRArgs, failAt \in FailPoints :
         \E rows \in QueryHRRecords(records, a.id) :
            LET r == CalculateHRZonesForActivityTx(hr_zones, a.id, maxHR, rows, failAt) IN
            /\ hr_zones' = r.hr_zones
            /\ call' = [op |-> "CalculateHRZonesForActivity", activityID |-> a.id,
                        maxHR |-> maxHR, err |-> r.err, before |-> hr_zones]
    /\ UNCHANGED <<file, parsed, zoneTimes, activities, records, laps, agg_daily,
                   uarg, uout>>
    /\ UNCHANGED besideCore

NextRecompute == ScanFile \/ RecomputeTx

SpecRecompute == InitRecompute /\ [][NextRecompute]_vars

----------------------------------------------------------------------------
(* POST /api/import.  Requests are served concurrently, one goroutine each;  *)
(* importBusy is a channel of capacity 1 used as a lock.                     *)

Requests == {1, 2, 3}

\* the request methods the handler meets
Methods == {"POST", "GET"}

\* the variables of the importer, idle under the entry point fn
CoreIdle(fn) ==
    /\ file = MissingFile
    /\ parsed = Failure("not called")
    /\ zoneTimes = <<>>
    /\ activities = {}
    /\ records = <<>>
    /\ laps = <<>>
    /\ hr_zones = {}
    /\ agg_daily = {}
    /\ call = NotCalled
    /\ uarg = [fn |-> fn]
    /\ uout = <<>>

\* no request has arrived; the server was built with or without an importer
InitImport ==
    /\ CoreIdle("import")
    /\ StepIdle
    /\ ParIdle
    /\ IngIdle
    /\ LogIdle
    /\ AuthIdle
    /\ hpc = [r \in Requests |-> "idle"]
    /\ hstatus = [r \in Requests |-> 0]
    /\ importBusy = 0
    /\ im \in BOOLEAN

ImportFrame == UNCHANGED <<besideWeb, logVars, authVars, im>>

\* http.Error and the return after it, or the response of the scan
Respond(r, status) ==
    /\ hpc' = [hpc EXCEPT ![r] = "done"]
    /\ hstatus' = [hstatus EXCEPT ![r] = status]

\* a deferred function that runs only when the scan has run
DeferredRuns_AfterScanOnly(path) == path = "ScanOnce"

\* line 53: defer func() { <-importBusy }() runs at the return of every path
\* after it
DeferredRuns(path) == TRUE

\* the channel after the handler has returned by path
AfterReturn(path) == IF DeferredRuns(path) THEN importBusy - 1 ELSE importBusy

\* lines 47-50: a request arrives, or a client sends its next one
HMethod(r) ==
    /\ hpc[r] \in {"idle", "done"}
    /\ \E m \in Methods :
          IF m # "POST"
          THEN Respond(r, 405)
          ELSE /\ hpc' = [hpc EXCEPT ![r] = "select"]
               /\ hstatus' = [hstatus EXCEPT ![r] = 0]
    /\ UNCHANGED importBusy
    /\ ImportFrame

\* lines 51-57: the send on importBusy if the channel has room, the default
\* branch otherwise
HSelect(r) ==
    /\ hpc[r] = "select"
    /\ IF importBusy < 1
       THEN /\ importBusy' = importBusy + 1
            /\ hpc' = [hpc EXCEPT ![r] = "s.im"]
            /\ UNCHANGED hstatus
       ELSE /\ Respond(r, 409)
            /\ UNCHANGED importBusy
    /\ ImportFrame

\* lines 59-62
HImporter(r) ==
    /\ hpc[r] = "s.im"
    /\ IF ~im
       THEN /\ Respond(r, 503)
            /\ importBusy' = AfterReturn("s.im")
       ELSE /\ hpc' = [hpc EXCEPT ![r] = "ScanOnce"]
            /\ UNCHANGED <<hstatus, importBusy>>
    /\ ImportFrame

\* lines 64-93: the scan and the response; a panic of the scan ends the
\* handler as well, with no response written
HScanOnce(r) ==
    /\ hpc[r] = "ScanOnce"
    /\ \E panics \in BOOLEAN : Respond(r, IF panics THEN 500 ELSE 200)
    /\ importBusy' = AfterReturn("ScanOnce")
    /\ ImportFrame

NextImport ==
    \E r \in Requests :
        \/ HMethod(r)
        \/ HSelect(r)
        \/ HImporter(r)
        \/ HScanOnce(r)

SpecImport == InitImport /\ [][NextImport]_vars

----------------------------------------------------------------------------
(* The import log.  Goroutines of the importer call Printf; each GET          *)
(* /api/logs handler subscribes a channel of its own, receives from it and    *)
(* unsubscribes it once when its client goes away.  The ring buffer and the   *)
(* channels are shorter than in the program.                                  *)

\* the lines the ring buffer keeps (maxLines, 500 in the program)
RingLines == 2

\* the lines a channel buffers (64 in the program)
ChanSlots == 1

\* the calls of Printf in one run
MaxPrints == 3

Printers == {1, 2}

Subscribers == {3, 4}

InitLog ==
    /\ CoreIdle("importlog")
    /\ StepIdle
    /\ ParIdle
    /\ IngIdle
    /\ ImportIdle
    /\ AuthIdle
    /\ lpc = [g \in Printers \cup Subscribers |-> "idle"]
    /\ mu = 0
    /\ lines = <<>>
    /\ subs = {}
    /\ chans = [c \in Subscribers |-> <<>>]
    /\ closed = {}
    /\ todo = [p \in Printers |-> {}]
    /\ cur = [p \in Printers |-> 0]
    /\ got = [c \in Subscribers |-> {}]
    /\ missed = [c \in Subscribers |-> {}]
    /\ printed = 0
    /\ panicked = FALSE

LogFrame == UNCHANGED <<besideWeb, importVars, authVars>>

LGoto(g, at) == lpc' = [lpc EXCEPT ![g] = at]

\* lines 24-28: the oldest line is dropped if the buffer is full, and msg is
\* appended
Appended(buf, msg) ==
    IF Len(buf) >= RingLines
    THEN Append(SubSeq(buf, 2, RingLines), msg)
    ELSE Append(buf, msg)

\* a fan-out that starts without the mutex
LockedBy_Nobody(p) == mu

\* line 22: mu.Lock() by goroutine p
LockedBy(p) == p

\* lines 19-20: the message is formatted and written to the standard log
LFormat(p) ==
    /\ lpc[p] = "idle"
    /\ printed < MaxPrints
    /\ printed' = printed + 1
    /\ cur' = [cur EXCEPT ![p] = printed + 1]
    /\ LGoto(p, "mu.Lock")
    /\ UNCHANGED <<mu, lines, subs, chans, closed, todo, got, missed, panicked>>
    /\ LogFrame

\* lines 22-30: the mutex, the ring buffer, and the start of the range over
\* subs
LLock(p) ==
    /\ lpc[p] = "mu.Lock"
    /\ mu \in {0, LockedBy(p)}
    /\ mu' = LockedBy(p)
    /\ lines' = Appended(lines, cur[p])
    /\ todo' = [todo EXCEPT ![p] = subs]
    /\ LGoto(p, "range subs")
    /\ UNCHANGED <<subs, chans, closed, cur, got, missed, printed, panicked>>
    /\ LogFrame

\* line 31: select { case ch <- msg: default: } on one channel of the map, in
\* the order the range yields them; a send on a closed channel panics
LSend(p) ==
    /\ lpc[p] = "range subs"
    /\ \E ch \in todo[p] :
          /\ todo' = [todo EXCEPT ![p] = @ \ {ch}]
          /\ IF ch \in closed
             THEN /\ panicked' = TRUE
                  /\ UNCHANGED <<chans, missed>>
             ELSE IF Len(chans[ch]) < ChanSlots
             THEN /\ chans' = [chans EXCEPT ![ch] = Append(@, cur[p])]
                  /\ UNCHANGED <<missed, panicked>>
             ELSE /\ missed' = [missed EXCEPT ![ch] = @ \cup {cur[p]}]
                  /\ UNCHANGED <<chans, panicked>>
    /\ UNCHANGED <<lpc, mu, lines, subs, closed, cur, got, printed>>
    /\ LogFrame

\* line 33: the range is over, mu.Unlock()
LUnlock(p) ==
    /\ lpc[p] = "range subs"
    /\ todo[p] = {}
    /\ mu' = (IF mu = p THEN 0 ELSE mu)
    /\ UNCHANGED todo
    /\ LGoto(p, "idle")
    /\ UNCHANGED <<lines, subs, chans, closed, cur, got, missed, printed, panicked>>
    /\ LogFrame

\* Subscribe, lines 53-57, called by handleLogsSSE line 109
LSubscribe(c) ==
    /\ lpc[c] = "idle"
    /\ mu = 0
    /\ subs' = subs \cup {c}
    /\ LGoto(c, "select")
    /\ UNCHANGED <<mu, lines, chans, closed, todo, cur, got, missed, printed, panicked>>
    /\ LogFrame

\* handleLogsSSE lines 120-124: a line is received and written to the client
LReceive(c) ==
    /\ lpc[c] = "select"
    /\ chans[c] # <<>>
    /\ got' = [got EXCEPT ![c] = @ \cup {Head(chans[c])}]
    /\ chans' = [chans EXCEPT ![c] = Tail(@)]
    /\ UNCHANGED <<lpc, mu, lines, subs, closed, todo, cur, missed, printed, panicked>>
    /\ LogFrame

\* handleLogsSSE lines 118-119: the client is gone and the handler returns
LDone(c) ==
    /\ lpc[c] = "select"
    /\ LGoto(c, "Unsubscribe")
    /\ UNCHANGED <<mu, lines, subs, chans, closed, todo, cur, got, missed, printed,
                   panicked>>
    /\ LogFrame

\* Unsubscribe lines 61-63
LDelete(c) ==
    /\ lpc[c] = "Unsubscribe"
    /\ mu = 0
    /\ subs' = subs \ {c}
    /\ LGoto(c, "close")
    /\ UNCHANGED <<mu, lines, chans, closed, todo, cur, got, missed, printed, panicked>>
    /\ LogFrame

\* Unsubscribe line 64
LClose(c) ==
    /\ lpc[c] = "close"
    /\ closed' = closed \cup {c}
    /\ LGoto(c, "returned")
    /\ UNCHANGED <<mu, lines, subs, chans, todo, cur, got, missed, printed, panicked>>
    /\ LogFrame

NextLog ==
    \/ \E p \in Printers : LFormat(p) \/ LLock(p) \/ LSend(p) \/ LUnlock(p)
    \/ \E c \in Subscribers :
          LSubscribe(c) \/ LReceive(c) \/ LDone(c) \/ LDelete(c) \/ LClose(c)

SpecLog == InitLog /\ [][NextLog]_vars

----------------------------------------------------------------------------
(* The account pages.  Users sign in, each sign-in creating a session, and   *)
(* a signed-in user changes the password; every statement on the database    *)
(* may fail.                                                                 *)

Users == {1, 2}

\* the session ids generated in one run
MaxSessions == 4

\* the forms handleAccountPassword is sent
Forms == {"ok", "mismatch", "short", "wrong current"}

InitAccount ==
    /\ CoreIdle("account")
    /\ StepIdle
    /\ ParIdle
    /\ IngIdle
    /\ ImportIdle
    /\ LogIdle
    /\ AuthIdle

AccountFrame == UNCHANGED <<besideWeb, importVars, logVars>>

\* the sessions of user u in table t
SessionsOf(t, u) == {x \in t : x.user_id = u}

\* CreateSession(userID): a fresh id and its row, or an error and no row
CreateSession(t, n, u, ok) ==
    IF ok THEN [t |-> t \cup {[id |-> n + 1, user_id |-> u]}, id |-> <<n + 1>>, err |-> "nil"]
    ELSE [t |-> t, id |-> <<>>, err |-> "exec"]

\* DeleteSessionsForUserExcept(userID, keepID)
DeleteSessionsForUserExcept(t, u, keepID, ok) ==
    IF ~ok THEN t
    ELSE IF keepID = <<>> THEN t \ SessionsOf(t, u)
    ELSE {x \in t : x.user_id # u \/ <<x.id>> = keepID}

\* handleLogin line 63: a user signs in from one more browser
Login ==
    /\ created < MaxSessions
    /\ \E u \in Users, ok \in BOOLEAN :
          /\ sessionRows' = CreateSession(sessionRows, created, u, ok).t
          /\ created' = created + 1
    /\ UNCHANGED <<apc, auser, anew, amsg, abefore>>
    /\ AccountFrame

\* handleAccountPassword lines 163-190: the user of the request, the form,
\* and the check of the current password
PasswordForm ==
    /\ apc \in {"idle", "done"}
    /\ \E u \in Users, form \in Forms :
          /\ SessionsOf(sessionRows, u) # {}
          /\ auser' = u
          /\ abefore' = SessionsOf(sessionRows, u)
          /\ anew' = <<>>
          /\ IF form = "ok"
             THEN apc' = "UpdatePassword" /\ amsg' = ""
             ELSE apc' = "done" /\ amsg' = form
    /\ UNCHANGED <<sessionRows, created>>
    /\ AccountFrame

\* line 191
UpdatePassword ==
    /\ apc = "UpdatePassword"
    /\ \E ok \in BOOLEAN :
          IF ok THEN apc' = "CreateSession" /\ UNCHANGED amsg
          ELSE apc' = "done" /\ amsg' = "exec"
    /\ UNCHANGED <<sessionRows, created, auser, anew, abefore>>
    /\ AccountFrame

\* lines 194-195
NewSession ==
    /\ apc = "CreateSession"
    /\ \E ok \in BOOLEAN :
          LET r == CreateSession(sessionRows, created, auser, ok /\ created < MaxSessions) IN
          /\ sessionRows' = r.t
          /\ created' = (IF r.err = "nil" THEN created + 1 ELSE created)
          /\ anew' = r.id
          /\ apc' = (IF r.err = "nil" THEN "DeleteSessionsForUserExcept" ELSE "Success")
    /\ UNCHANGED <<auser, amsg, abefore>>
    /\ AccountFrame

\* lines 196-197: the error of the DELETE is discarded
DropOldSessions ==
    /\ apc = "DeleteSessionsForUserExcept"
    /\ \E ok \in BOOLEAN :
          sessionRows' = DeleteSessionsForUserExcept(sessionRows, auser, anew, ok)
    /\ apc' = "Success"
    /\ UNCHANGED <<created, auser, anew, amsg, abefore>>
    /\ AccountFrame

\* line 199
Success ==
    /\ apc = "Success"
    /\ amsg' = "Password updated"
    /\ apc' = "done"
    /\ UNCHANGED <<sessionRows, created, auser, anew, abefore>>
    /\ AccountFrame

NextAccount ==
    \/ Login
    \/ PasswordForm
    \/ UpdatePassword
    \/ NewSession
    \/ DropOldSessions
    \/ Success

SpecAccount == InitAccount /\ [][NextAccount]_vars

----------------------------------------------------------------------------
(* Properties. *)

\* the band 1..5 a heart rate falls in by the thresholds of the code, lower
\* bound inclusive and upper bound exclusive; 0 when it falls in none
BandOfCode(hr, maxHR) ==
    IF \E z \in 1..5 : maxHR * (40 + 10 * z) <= 100 * hr /\ 100 * hr < maxHR * (50 + 10 * z)
    THEN CHOOSE z \in 1..5 :
            maxHR * (40 + 10 * z) <= 100 * hr /\ 100 * hr < maxHR * (50 + 10 * z)
    ELSE 0

\* the band 1..5 by the intervals [50,60) [60,70) [70,80) [80,90) [90,100] of
\* max HR; 0 when the heart rate falls in none
BandClosedTop(hr, maxHR) ==
    IF 100 * hr >= maxHR * 90 /\ hr <= maxHR THEN 5 ELSE BandOfCode(hr, maxHR)

\* the sum of s[i+1].TOffsetS - s[i].TOffsetS over the positions i in I
RECURSIVE SumElapsed(_, _)
SumElapsed(s, I) ==
    IF I = {} THEN 0
    ELSE LET i == CHOOSE j \in I : TRUE IN
         (s[i + 1].TOffsetS - s[i].TOffsetS) + SumElapsed(s, I \ {i})

\* the positions of the pairs (i, i+1) whose first record has a heart rate in
\* band z
PairsInBand(s, maxHR, z) ==
    {i \in 1..(Len(s) - 1) : s[i].HR # None /\ BandOfCode(s[i].HR[1], maxHR) = z}

\* the number of records with a heart rate
UsableHR(s) == Cardinality({i \in 1..Len(s) : s[i].HR # None})

\* the offsets of a record sequence never decrease
OffsetsAscend(s) == \A i \in 1..(Len(s) - 1) : s[i].TOffsetS <= s[i + 1].TOffsetS

\* a ParseFIT call has returned an activity decoded from a session
Decoded == parsed.err = "nil" /\ parsed.act.FitUID # <<>>

Recomputed == call.op = "CalculateHRZonesForActivity"

\* C1 as claimed: once the recompute entry point has run for the ingested
\* activity with the max HR of its ingestion, the stored zone list equals the
\* zone list ParseFIT computed from the same records.
C1_RecomputeEqualsIngest ==
    (Decoded /\ Recomputed /\ call.maxHR = parsed.act.MaxHR)
        => GetHRZones(hr_zones, call.activityID) = parsed.zones

\* C2 as claimed: a pair whose first heart rate lies in band k of [50,60)
\* [60,70) [70,80) [80,90) [90,100] of max HR, the top band closed above,
\* credits its seconds to zone k, at both entry points.
C2_TopBandClosed ==
    (uarg.fn = "zones" /\ uout # <<>> /\ uarg.maxHR > 0
        /\ BandClosedTop(uarg.hr, uarg.maxHR) # 0)
        => /\ uout[1].zones = <<[Zone |-> BandClosedTop(uarg.hr, uarg.maxHR),
                                 TimeSeconds |-> PairSeconds]>>
           /\ uout[1].stored = uout[1].zones

\* C3 as claimed: a record sequence with fewer than 2 heart-rate readings
\* gives an empty zone list and no error.
C3_FewerThanTwoNoZones ==
    (Decoded /\ UsableHR(parsed.recs) < 2) => parsed.zones = <<>>

\* C4: with max HR 0 ParseFIT returns no zones and no error and ingestion
\* writes no zone row; CalculateHRZonesForActivity called with max HR 0
\* returns nil and leaves table hr_zones as it was.
C4_NoMaxHRNoZones ==
    /\ (Decoded /\ parsed.act.MaxHR = 0) => parsed.zones = <<>>
    /\ (Decoded /\ parsed.act.MaxHR = 0 /\ call.op = "IngestFile")
          => hr_zones = call.before
    /\ (Recomputed /\ call.maxHR = 0) => call.err = "nil" /\ hr_zones = call.before

\* both entry points have run with max HR 0 on a sequence with two heart rates
C4_Witness ==
    /\ Decoded /\ parsed.act.MaxHR = 0 /\ UsableHR(parsed.recs) >= 2
    /\ Recomputed /\ call.maxHR = 0
    /\ Cardinality(HRRowIDs(records, call.activityID)) >= 2

\* C5: for max HR > 0 each accumulator holds the sum, over the pairs (i, i+1)
\* whose first record has a heart rate in that band, of offset(i+1) -
\* offset(i); the last record credits nothing; every zone returned carries
\* that sum.
C5_PairCreditsFirstRecord ==
    (Decoded /\ parsed.act.MaxHR > 0) =>
        /\ \A z \in 1..5 :
              zoneTimes[z] = SumElapsed(parsed.recs,
                                        PairsInBand(parsed.recs, parsed.act.MaxHR, z))
        /\ \A k \in 1..Len(parsed.zones) :
              parsed.zones[k].TimeSeconds =
                  SumElapsed(parsed.recs,
                             PairsInBand(parsed.recs, parsed.act.MaxHR, parsed.zones[k].Zone))

\* three records, the first two with heart rates in different bands, both
\* credited
C5_Witness ==
    /\ Decoded /\ parsed.act.MaxHR > 0 /\ Len(parsed.recs) = 3
    /\ parsed.recs[1].HR = Some(140) /\ parsed.recs[2].HR = Some(160)
    /\ parsed.recs[3].HR = Some(200)
    /\ parsed.zones = <<[Zone |-> 3, TimeSeconds |-> 10], [Zone |-> 4, TimeSeconds |-> 10]>>

\* the positions of the record messages that open a credited pair of band z:
\* a heart-rate byte other than 0 and 255, whatever the next message holds
RawPairsInBand(f, maxHR, z) ==
    {i \in 1..(Len(f.records) - 1) :
        /\ f.records[i].HeartRate # 0
        /\ f.records[i].HeartRate # 255
        /\ BandOfCode(f.records[i].HeartRate, maxHR) = z}

RECURSIVE SumRawElapsed(_, _)
SumRawElapsed(f, I) ==
    IF I = {} THEN 0
    ELSE LET i == CHOOSE j \in I : TRUE IN
         (f.records[i + 1].Timestamp - f.records[i].Timestamp) + SumRawElapsed(f, I \ {i})

\* C6: a record message whose heart rate is 255 becomes a record without
\* heart rate, opens no credited pair and still closes the pair of the record
\* before it; the series [(0,140),(10,150),(20,255),(30,160)] with max HR 200
\* gives exactly zone 3 = 20 s.
C6_SentinelCreditsNothing ==
    /\ (Decoded /\ file = ScenarioFile)
          => parsed.zones = <<[Zone |-> 3, TimeSeconds |-> 20]>>
    /\ (Decoded /\ parsed.act.MaxHR > 0) =>
          /\ \A i \in 1..Len(file.records) :
                file.records[i].HeartRate = 255 => parsed.recs[i].HR = None
          /\ \A z \in 1..5 :
                zoneTimes[z] = SumRawElapsed(file, RawPairsInBand(file, parsed.act.MaxHR, z))

C6_Witness ==
    /\ file = ScenarioFile /\ Decoded
    /\ parsed.recs[3].HR = None
    /\ zoneTimes = <<0, 0, 20, 0, 0>>

\* C7: a heart rate below 50% of max HR is in no band and adds no time to any
\* zone; a pair credits its seconds to at most one zone.
C7_BelowHalfNoZone ==
    (uarg.fn = "zones" /\ uout # <<>>) =>
        /\ 2 * uarg.hr < uarg.maxHR => uout[1].zones = <<>> /\ uout[1].stored = <<>>
        /\ Len(uout[1].zones) <= 1 /\ Len(uout[1].stored) <= 1
        /\ \A k \in 1..Len(uout[1].zones) : uout[1].zones[k].TimeSeconds = PairSeconds
        /\ \A k \in 1..Len(uout[1].stored) : uout[1].stored[k].TimeSeconds = PairSeconds

C7_Witness ==
    /\ uarg.fn = "zones" /\ uarg.hr = 99 /\ uarg.maxHR = 200
    /\ uout = <<[zones |-> <<>>, stored |-> <<>>, err |-> "nil"]>>

\* a zone list: zones 1..5, strictly ascending, each with seconds > 0
ZoneListOK(zs) ==
    \A k \in 1..Len(zs) :
        /\ zs[k].Zone \in 1..5
        /\ zs[k].TimeSeconds > 0
        /\ \A j \in 1..(k - 1) : zs[j].Zone < zs[k].Zone

\* C8: every zone list ParseFIT returns and every set of hr_zones rows holds
\* only zones 1..5, each at most once per activity, in ascending order when
\* read, each with seconds > 0, also when offsets decrease.
C8_ZonesWellFormed ==
    /\ ZoneListOK(parsed.zones)
    /\ \A r \in hr_zones :
          /\ r.zone \in 1..5
          /\ r.time_seconds > 0
          /\ \A q \in hr_zones :
                (q.activity_id = r.activity_id /\ q.zone = r.zone) => q = r
    /\ \A a \in activities :
          /\ ZoneListOK(GetHRZones(hr_zones, a.id))
          /\ Len(GetHRZones(hr_zones, a.id))
                = Cardinality({r \in hr_zones : r.activity_id = a.id})

\* offsets decrease, one accumulator ended below zero and another above, and
\* the recompute has written rows
C8_Witness ==
    /\ Decoded /\ ~OffsetsAscend(parsed.recs)
    /\ \E z \in 1..5 : zoneTimes # <<>> /\ zoneTimes[z] < 0
    /\ parsed.zones # <<>>
    /\ Recomputed /\ call.maxHR > 0 /\ hr_zones # {} /\ hr_zones # call.before

\* C9 as claimed: in every heart-rate field 255 becomes absent (0 in the
\* summary and the lap, nil in the record) and every byte 0..254 itself.
C9_SentinelOnlyAbsent ==
    (uarg.fn = "hr" /\ uout # <<>>) =>
        LET b    == uarg.raw
            self == IF b = 255 THEN 0 ELSE b
        IN  /\ uout[1].act.AvgHR = self
            /\ uout[1].act.MaxHR = self
            /\ uout[1].laps[1].AvgHR = self
            /\ uout[1].laps[1].MaxHR = self
            /\ uout[1].recs[1].HR = IF b = 255 THEN None ELSE Some(b)

\* C9 amended: in the summary and lap fields 255 becomes 0 and every byte
\* 0..254 itself; in the record field 255 and 0 become absent and every byte
\* 1..254 itself.
C9_SentinelAndZeroAbsent ==
    (uarg.fn = "hr" /\ uout # <<>>) =>
        LET b    == uarg.raw
            self == IF b = 255 THEN 0 ELSE b
        IN  /\ uout[1].act.AvgHR = self
            /\ uout[1].act.MaxHR = self
            /\ uout[1].laps[1].AvgHR = self
            /\ uout[1].laps[1].MaxHR = self
            /\ uout[1].recs[1].HR = IF b = 255 \/ b = 0 THEN None ELSE Some(b)

C9_Witness ==
    /\ uarg.fn = "hr" /\ uarg.raw = 255 /\ uout # <<>>
    /\ uout[1].act.MaxHR = 0 /\ uout[1].laps[1].AvgHR = 0 /\ uout[1].recs[1].HR = None

\* C10: in every record ParseFIT returns and in every row of table records,
\* latitude is present exactly when longitude is.
C10_BothAxesOrNone ==
    /\ \A i \in 1..Len(parsed.recs) :
          (parsed.recs[i].Lat = None) <=> (parsed.recs[i].Lon = None)
    /\ \A i \in 1..Len(records) :
          (records[i].lat_deg = None) <=> (records[i].lon_deg = None)

\* a record message with a latitude and no longitude has been stored
C10_Witness ==
    /\ Len(file.records) >= 1
    /\ file.records[1].PositionLat = 268435456 /\ file.records[1].PositionLong = 0
    /\ Len(records) >= 1
    /\ records[1].lat_deg = None /\ records[1].lon_deg = None

\* the product s * 180 / 2^31 is a whole number of 1/128 degree
DegExact(s) == ((s % 16777216) * 45) % 4194304 = 0

\* -limit <= s * 180 / 2^31 <= limit, read off the converted value: its floor
\* in 1/128 degree and whether the floor is exact
DegWithin(s, limit) ==
    /\ SemicirclesToDeg128(s) >= -(limit * 128)
    /\ \/ SemicirclesToDeg128(s) < limit * 128
       \/ SemicirclesToDeg128(s) = limit * 128 /\ DegExact(s)

\* C11: a record has a position (the converted axes) exactly when both raw
\* semicircle axes are nonzero, the converted latitude lies in [-90, 90] and
\* the converted longitude in [-180, 180]; otherwise it has none.
C11_PositionExactlyWhenValid ==
    (call.op = "IngestFile" /\ Decoded) =>
        \A i \in 1..Len(parsed.recs) :
            LET lat == file.records[i].PositionLat
                lon == file.records[i].PositionLong
                ok  == /\ lat # 0
                       /\ lon # 0
                       /\ DegWithin(lat, 90)
                       /\ DegWithin(lon, 180)
            IN  /\ ok => /\ parsed.recs[i].Lat = Some(SemicirclesToDeg128(lat))
                         /\ parsed.recs[i].Lon = Some(SemicirclesToDeg128(lon))
                /\ ~ok => /\ parsed.recs[i].Lat = None
                          /\ parsed.recs[i].Lon = None

\* the raw axes (214748364, 0) were parsed and the record has no position
C11_Witness ==
    /\ call.op = "IngestFile"
    /\ Decoded
    /\ Len(file.records) = 1
    /\ file.records[1].PositionLat = 214748364
    /\ file.records[1].PositionLong = 0
    /\ parsed.recs[1].Lat = None
    /\ parsed.recs[1].Lon = None

\* q is raw / scale truncated toward zero, for raw >= 0
TruncatedQuotient(q, raw, scale) == q * scale <= raw /\ raw < (q + 1) * scale

\* v is the number raw / scale
ExactQuotient(v, raw, scale) ==
    /\ v.den = scale
    /\ v.frac >= 0
    /\ v.frac < scale
    /\ v.whole * scale + v.frac = raw

\* a file of UnitParse has been parsed
Parsed == uarg.fn = "parse" /\ uout # <<>>

\* C12: session and lap duration is raw total_timer_time / 1000 truncated
\* toward zero, distance is raw total_distance / 100 truncated toward zero,
\* and the average speed is raw avg_speed / 1000, kept even when it is 0.
C12_SummaryScaling ==
    (Parsed /\ Len(uarg.file.sessions) > 0) =>
        LET s   == uarg.file.sessions[1]
            out == uout[1]
        IN  /\ out.err = "nil"
            /\ TruncatedQuotient(out.act.DurationS, s.TotalTimerTime, 1000)
            /\ TruncatedQuotient(out.act.DistanceM, s.TotalDistance, 100)
            /\ ExactQuotient(out.act.AvgSpeedMPS, s.AvgSpeed, 1000)
            /\ Len(out.laps) = Len(uarg.file.laps)
            /\ \A i \in 1..Len(out.laps) :
                  LET lp == uarg.file.laps[i] IN
                  /\ TruncatedQuotient(out.laps[i].DurS, lp.TotalTimerTime, 1000)
                  /\ TruncatedQuotient(out.laps[i].DistM, lp.TotalDistance, 100)
                  /\ ExactQuotient(out.laps[i].AvgSpd, lp.AvgSpeed, 1000)

\* raw 3661000, 1005000, 3500 were parsed to 3661 s, 10050 m and 3.5 m/s
C12_Witness ==
    /\ Parsed
    /\ Len(uarg.file.sessions) > 0
    /\ uarg.file.sessions[1].TotalTimerTime = 3661000
    /\ uarg.file.sessions[1].TotalDistance = 1005000
    /\ uarg.file.sessions[1].AvgSpeed = 3500
    /\ uout[1].act.DurationS = 3661
    /\ uout[1].act.DistanceM = 10050
    /\ uout[1].act.AvgSpeedMPS = [whole |-> 3, frac |-> 500, den |-> 1000]
    /\ Len(uout[1].laps) = 1
    /\ uout[1].laps[1].DurS = 3661

\* C13: the elevation of a record is absent exactly when the raw altitude is
\* 0; for every other raw value it is present and equals raw / 5 - 500, so
\* raw 2500 gives a present elevation of 0.0.
C13_ElevationScaling ==
    Parsed =>
        \A i \in 1..Len(uout[1].recs) :
            LET raw == uarg.file.records[i].Altitude
                e   == uout[1].recs[i].ElevM
            IN  /\ (e = None) <=> (raw = 0)
                /\ e # None =>
                      /\ e[1].den = 5
                      /\ e[1].frac \in 0..4
                      /\ (e[1].whole + 500) * 5 + e[1].frac = raw

\* raw altitude 2500 was parsed to a present elevation of 0.0
C13_Witness ==
    /\ Parsed
    /\ Len(uout[1].recs) = 1
    /\ uarg.file.records[1].Altitude = 2500
    /\ uout[1].recs[1].ElevM = Some([whole |-> 0, frac |-> 0, den |-> 5])

\* C14: speed, cadence, power and temperature of a record are absent exactly
\* when the raw value is 0, and otherwise present with the raw value: speed
\* divided by 1000, cadence and power as they are, temperature as the signed
\* one-byte reading, negative readings included.
C14_SensorFields ==
    Parsed =>
        \A i \in 1..Len(uout[1].recs) :
            LET rr == uarg.file.records[i]
                r  == uout[1].recs[i]
            IN  /\ (r.SpeedMPS = None) <=> (rr.Speed = 0)
                /\ r.SpeedMPS # None => ExactQuotient(r.SpeedMPS[1], rr.Speed, 1000)
                /\ r.Cad = IF rr.Cadence = 0 THEN None ELSE Some(rr.Cadence)
                /\ r.PowerW = IF rr.Power = 0 THEN None ELSE Some(rr.Power)
                /\ r.TempC = IF rr.Temperature = 0 THEN None
                             ELSE Some(rr.Temperature)

\* a record with raw speed 0 and raw temperature -128 was parsed: no speed,
\* and -128 degrees
C14_Witness ==
    /\ Parsed
    /\ Len(uout[1].recs) = 1
    /\ uarg.file.records[1].Speed = 0
    /\ uarg.file.records[1].Temperature = -128
    /\ uarg.file.records[1].Cadence = 255
    /\ uarg.file.records[1].Power = 65535
    /\ uout[1].recs[1].SpeedMPS = None
    /\ uout[1].recs[1].TempC = Some(-128)
    /\ uout[1].recs[1].Cad = Some(255)
    /\ uout[1].recs[1].PowerW = Some(65535)

\* te is the training-effect score of the raw byte: absent for 0 and 255,
\* raw / 10 otherwise
EffectOf(te, raw) ==
    IF raw = 0 \/ raw = 255 THEN te = None
    ELSE te # None /\ ExactQuotient(te[1], raw, 10)

\* C15: each training-effect score (aerobic, anaerobic) is absent when its
\* raw byte is 0 or 255, never present as 0.0, and present as raw / 10 for
\* every other raw byte.
C15_EffectAbsentOrTenth ==
    (Parsed /\ Len(uarg.file.sessions) > 0) =>
        LET s == uarg.file.sessions[1] IN
        /\ EffectOf(uout[1].act.AerobicTE, s.TotalTrainingEffect)
        /\ EffectOf(uout[1].act.AnaerobicTE, s.TotalAnaerobicTrainingEffect)
        /\ uout[1].act.AerobicTE # Some(Fixed(0, 10))
        /\ uout[1].act.AnaerobicTE # Some(Fixed(0, 10))

\* raw bytes 0 (aerobic) and 255 (anaerobic) were parsed to absent scores
C15_Witness ==
    /\ Parsed
    /\ Len(uarg.file.sessions) > 0
    /\ uarg.file.sessions[1].TotalTrainingEffect = 0
    /\ uarg.file.sessions[1].TotalAnaerobicTrainingEffect = 255
    /\ uout[1].act.AerobicTE = None
    /\ uout[1].act.AnaerobicTE = None

\* te is absent or a number in [0.0, 5.0]
EffectInRange(te) ==
    te # None =>
        /\ te[1].whole >= 0
        /\ te[1].whole < 5 \/ (te[1].whole = 5 /\ te[1].frac = 0)

\* C16: in every summary ParseFIT returns, each training-effect score is
\* absent or lies in [0.0, 5.0], for every raw byte 0..255.
C16_EffectInRange ==
    Parsed =>
        /\ EffectInRange(uout[1].act.AerobicTE)
        /\ EffectInRange(uout[1].act.AnaerobicTE)

\* C17: in every record sequence ParseFIT returns, the time offsets are
\* non-decreasing, whatever the order of the raw record timestamps.
C17_OffsetsNonDecreasing ==
    (call.op = "IngestFile" /\ Decoded) =>
        \A i \in 1..(Len(parsed.recs) - 1) :
            parsed.recs[i].TOffsetS <= parsed.recs[i + 1].TOffsetS

\* the last call was an ingestion that ran ParseFIT on the file
ParsedByIngestion ==
    /\ call.op \in {"IngestFile", "processFITFile"}
    /\ parsed.err # "not called"

\* C18: a file that decodes and holds no session message yields the zero
\* summary, no records, no laps, no zones and no error; a file that fails to
\* decode yields an error, so the two are told apart by the error alone.
C18_NoSessionIsEmptySuccess ==
    ParsedByIngestion =>
        /\ (file.status = "ok" /\ Len(file.sessions) = 0) =>
              /\ parsed.act = ZeroActivity
              /\ parsed.recs = <<>>
              /\ parsed.laps = <<>>
              /\ parsed.zones = <<>>
              /\ parsed.err = "nil"
        /\ file.status \in {"malformed", "wrongtype"} => parsed.err # "nil"

\* a file with a record and a lap message and no session was parsed
C18_Witness ==
    /\ ParsedByIngestion
    /\ file.status = "ok"
    /\ Len(file.sessions) = 0
    /\ Len(file.records) > 0
    /\ parsed.recs = <<>>
    /\ parsed.err = "nil"

\* C19: whenever ParseFIT returns an error to an ingestion, its four outputs
\* are empty, the ingestion returns an error and it leaves every table as it
\* was.
C19_ErrorLeavesNothing ==
    [][(/\ call'.op \in {"IngestFile", "processFITFile"}
        /\ parsed'.err \notin {"nil", "not called"})
       => /\ parsed'.act = ZeroActivity
          /\ parsed'.recs = <<>>
          /\ parsed'.laps = <<>>
          /\ parsed'.zones = <<>>
          /\ call'.err # "nil"
          /\ UNCHANGED <<activities, records, laps, hr_zones, agg_daily>>]_vars

\* an ingestion of a malformed file has returned the decode error, and no
\* activity is stored
C19_Witness ==
    /\ ParsedByIngestion
    /\ file.status = "malformed"
    /\ parsed.err = "decode"
    /\ call.err = "decode"
    /\ activities = {}

\* the place of a stage in Opened, Decoded, Normalized, ZonesComputed, Done
StageRank(st) ==
    CASE st = "Opened" -> 1
      [] st = "Decoded" -> 2
      [] st = "Normalized" -> 3
      [] st = "ZonesComputed" -> 4
      [] st = "Done" -> 5
      [] st = "Failed" -> 6

\* the stages so far are in order, none twice, a terminal stage only last,
\* and Failed only straight after Opened
StagesInOrder ==
    /\ Len(stages) >= 1
    /\ stages[1] = "Opened"
    /\ \A i \in 1..(Len(stages) - 1) :
          /\ stages[i] \notin {"Done", "Failed"}
          /\ StageRank(stages[i]) < StageRank(stages[i + 1])
          /\ stages[i + 1] = "Failed" => stages[i] = "Opened"

\* the call has returned in exactly one terminal stage, which matches what it
\* returned
Ended ==
    /\ pc = "returned"
    /\ stages[Len(stages)] \in {"Done", "Failed"}
    /\ stages[Len(stages)] = "Failed" <=> parsed.err # "nil"
    /\ parsed = ParseFIT(file)

\* how a call that has returned went, by the kind of file
EndedAsTheFileTells ==
    pc = "returned" =>
        /\ Ended
        /\ file.status # "ok" =>
              /\ stages = <<"Opened", "Failed">>
              /\ parsed.act = ZeroActivity
              /\ parsed.recs = <<>>
              /\ parsed.laps = <<>>
              /\ parsed.zones = <<>>
        /\ (file.status = "ok" /\ Len(file.sessions) = 0) =>
              /\ stages = <<"Opened", "Decoded", "Done">>
              /\ parsed = NoSessionResult
        /\ (file.status = "ok" /\ Len(file.sessions) > 0) =>
              stages = <<"Opened", "Decoded", "Normalized", "ZonesComputed", "Done">>

\* C20: a call of ParseFIT goes through the stages Opened, Decoded,
\* Normalized, ZonesComputed, Done in that order and through none twice, and
\* it always ends, in exactly one terminal stage: Failed, entered only from
\* Opened, for a file that cannot be opened or decoded, and Done otherwise; a
\* decoded file without a session ends in Done with empty outputs.
C20_StagesInOrderToOneEnd ==
    /\ [](StagesInOrder /\ EndedAsTheFileTells)
    /\ [](pc # "returned" => stages[Len(stages)] \notin {"Done", "Failed"})
    /\ <>[]Ended

\* a call on a file without a session has returned through Opened, Decoded
\* and Done
C20_Witness ==
    /\ pc = "returned"
    /\ file.status = "ok"
    /\ Len(file.sessions) = 0
    /\ stages = <<"Opened", "Decoded", "Done">>
    /\ parsed.err = "nil"

OnlyOwnState ==
    \E p \in Procs :
        /\ \A q \in Procs \ {p} :
              /\ ppc'[q] = ppc[q]
              /\ plocals'[q] = plocals[q]
              /\ pout'[q] = pout[q]
        /\ UNCHANGED <<besidePar, pfile>>

\* C22: concurrent calls of ParseFIT share no mutable state: under every
\* interleaving of their statements each call returns what it returns when
\* run alone, and no step of a call writes anything but that call's own
\* position, locals and result.
C22_CallsDoNotInterfere ==
    /\ [](\A p \in Procs : ppc[p] = "returned" => pout[p] = ParseFIT(pfile[p]))
    /\ [][OnlyOwnState]_vars

\* two calls on different files with sessions have both returned, each with
\* the result for its own file
C22_Witness ==
    /\ ppc = [p \in Procs |-> "returned"]
    /\ pfile[1] # pfile[2]
    /\ pfile[1] = ScenarioFile
    /\ Len(pfile[2].sessions) > 0
    /\ pout[1] = ParseFIT(pfile[1])
    /\ pout[2] = ParseFIT(pfile[2])
    /\ pout[1] # pout[2]

\* C23: after any interleaving of ingestions by IngestFile and by the upload,
\* no two rows of the activities table hold the same fit_uid, and no two hold
\* the same file hash
C23_NoTwoRowsAlike ==
    \A a, b \in activities :
        a # b => a.fit_uid # b.fit_uid /\ a.file_hash # b.file_hash

\* a goroutine is about to insert a file that the other goroutine stored, by
\* the same entry point, after both had looked it up
C23_Witness ==
    /\ ipc[2] = "InsertActivity"
    /\ ifile[2] = ScenarioFile
    /\ ifile[1] = ScenarioFile
    /\ ivia[1] = ivia[2]
    /\ ierr[1] = "nil"
    /\ \E a \in activities : a.file_hash = HashOf(2)

\* the file's identifier or its SHA-1 hash is in a row of the activities table
AlreadyStored(p, f) ==
    \E a \in activities : a.fit_uid = p.act.FitUID \/ a.file_hash = FileHash(f)

\* the file's identifier is not empty and stored, or its SHA-1 hash is stored
FoundByLookup(p, f) ==
    \/ p.act.FitUID # <<>> /\ LookupActivityByUID(activities, p.act.FitUID)
    \/ LookupActivityByHash(activities, FileHash(f))

\* C24 as stated: IngestFile of a decodable file whose fit_uid or content hash
\* is already stored returns ErrDuplicate and leaves the five tables as they
\* were
C24_ReimportIsErrDuplicate ==
    [][(/\ call'.op = "IngestFile"
        /\ parsed'.err = "nil"
        /\ AlreadyStored(parsed', file))
       => (call'.err = ErrDuplicate /\ UNCHANGED tableVars)]_vars

\* what IngestFile does grant in that case: the five tables stay as they were,
\* and the error is ErrDuplicate if the identifier is not empty or the SHA-1
\* hash is stored, and the error of the unique index otherwise
ReimportChangesNothing ==
    [][(/\ call'.op = "IngestFile"
        /\ parsed'.err = "nil"
        /\ AlreadyStored(parsed', file))
       => (/\ UNCHANGED tableVars
           /\ call'.err = IF FoundByLookup(parsed', file) THEN ErrDuplicate
                          ELSE "constraint")]_vars

\* what the transaction of goroutine p stores when every statement succeeds
WholeTx(p) ==
    IF ivia[p] = "IngestFile" THEN IngestTx(Tables, iparsed[p], HashOf(p))
    ELSE UploadTx(Tables, iparsed[p], HashOf(p))

\* the step leaves in the tables all that the transaction of p stores
CommittedTogether(p) ==
    /\ WholeTx(p).err = "nil"
    /\ activities' = WholeTx(p).t.activities
    /\ records' = WholeTx(p).t.records
    /\ laps' = WholeTx(p).t.laps
    /\ hr_zones' = WholeTx(p).t.hr_zones
    /\ agg_daily' = WholeTx(p).t.agg_daily

\* C25: a step of an ingestion changes the tables only when it returns nil,
\* and then the activity row, the records, the laps, the zones and the daily
\* aggregate of the file are all stored by that one step; an ingestion that
\* returns an error, at whichever statement, leaves nothing of its file
C25_AllOrNothing ==
    [][\A p \in Goroutines :
          ipc'[p] # ipc[p] =>
             IF ipc'[p] = "returned" /\ ierr'[p] = "nil"
             THEN CommittedTogether(p)
             ELSE UNCHANGED tableVars]_vars

\* one ingestion has stored its activity with records, laps and zones, and
\* the transaction of the other has failed at a statement and left nothing
C25_Witness ==
    /\ ipc = [p \in Goroutines |-> "returned"]
    /\ ifile[1] = ScenarioFile
    /\ ierr[1] = "nil"
    /\ ifile[2] = OrphanRecordsFile
    /\ ivia[2] = "IngestFile"
    /\ ierr[2] = "exec"
    /\ Cardinality(activities) = 1
    /\ Len(records) = 4
    /\ laps # <<>>
    /\ hr_zones # {}
    /\ agg_daily # {}

\* goroutine p returns from IngestFile of a decodable file without a session
\* whose SHA-1 hash is not stored, and no statement of it has failed for a
\* reason outside the tables
ReturnsForNewNoSessionFile(p) ==
    /\ ivia[p] = "IngestFile"
    /\ ipc[p] \notin {"idle", "returned"}
    /\ ipc'[p] = "returned"
    /\ ifile[p].status = "ok"
    /\ Len(ifile[p].sessions) = 0
    /\ ierr'[p] \notin {"exec", "commit"}
    /\ ~LookupActivityByHash(activities, HashOf(p))

\* the step stores an activity row of the empty identifier under p's hash, and
\* no record, lap or zone, and p returns nil
ImportedAsEmptyActivity(p) ==
    /\ ierr'[p] = "nil"
    /\ \E a \in activities' \ activities :
          /\ a.fit_uid = <<>>
          /\ a.file_hash = HashOf(p)
          /\ activities' = activities \cup {a}
    /\ UNCHANGED <<records, laps, hr_zones>>

\* C28 as stated: IngestFile of a file without a session whose content hash
\* is not yet stored inserts an activity row with an empty identifier and no
\* records, laps or zones, and returns nil
C28_NoSessionFileIsImported ==
    [][\A p \in Goroutines :
          ReturnsForNewNoSessionFile(p) => ImportedAsEmptyActivity(p)]_vars

\* what IngestFile does grant: the file is imported so if no row of the empty
\* identifier is stored, and fails on the unique index otherwise
NoSessionFileIsImportedOnce ==
    [][\A p \in Goroutines :
          ReturnsForNewNoSessionFile(p) =>
             IF LookupActivityByUID(activities, <<>>)
             THEN ierr'[p] = "constraint" /\ UNCHANGED tableVars
             ELSE ImportedAsEmptyActivity(p)]_vars

\* the zone rows of activity id in table t
ZoneRowsOf(t, id) == {r \in t : r.activity_id = id}

\* the zone rows a call on activity id with maxHR can store
FreshZoneRows(id, maxHR) ==
    {ReplaceZoneRows({}, id, StoredZoneLoop(rows, maxHR, 1, <<0, 0, 0, 0, 0>>)) :
       rows \in QueryHRRecords(records, id)}

\* C27: after CalculateHRZonesForActivity, the zone rows of every other
\* activity are as before the call; with maxHR 0 or fewer than 2 stored
\* heart-rate records the whole table is as before; otherwise the rows of the
\* activity are either the freshly computed ones, none of the old remaining,
\* or, if the call returned an error, as before
C27_RecomputeTouchesOneActivity ==
    call.op = "CalculateHRZonesForActivity" =>
       LET id == call.activityID IN
       /\ hr_zones \ ZoneRowsOf(hr_zones, id) = call.before \ ZoneRowsOf(call.before, id)
       /\ (call.maxHR = 0 \/ Cardinality(HRRowIDs(records, id)) < 2)
             => hr_zones = call.before /\ call.err \in {"nil", "query"}
       /\ (call.maxHR # 0 /\ Cardinality(HRRowIDs(records, id)) >= 2)
             => IF call.err = "nil"
                THEN ZoneRowsOf(hr_zones, id) \in FreshZoneRows(id, call.maxHR)
                ELSE hr_zones = call.before

\* two activities hold zone rows, and a call has replaced those of one by
\* different rows
C27_Witness ==
    /\ call.op = "CalculateHRZonesForActivity"
    /\ call.err = "nil"
    /\ Cardinality(activities) = 2
    /\ ZoneRowsOf(call.before, call.activityID) # {}
    /\ ZoneRowsOf(hr_zones, call.activityID) # ZoneRowsOf(call.before, call.activityID)
    /\ ZoneRowsOf(hr_zones, call.activityID) # {}
    /\ hr_zones \ ZoneRowsOf(hr_zones, call.activityID) # {}

\* the requests that hold the import lock
Holders == {r \in Requests : hpc[r] \in {"s.im", "ScanOnce"}}

\* a request that finds the channel full is answered 409 and is done
RejectedWhileHeld ==
    \A r \in Requests :
        (hpc[r] = "select" /\ Holders # {} /\ hpc'[r] # hpc[r])
           => (hpc'[r] = "done" /\ hstatus'[r] = 409)

\* C26: at most one request is scanning; the channel holds a value exactly
\* while one request is between its send and its return, so it is empty as
\* soon as the holder has returned, by whichever path; and a request that
\* arrives while another holds the lock is answered 409 without scanning
C26_OneImportAtATime ==
    /\ [](Cardinality({r \in Requests : hpc[r] = "ScanOnce"}) <= 1)
    /\ [](importBusy = Cardinality(Holders) /\ importBusy \in {0, 1})
    /\ [][RejectedWhileHeld]_vars

\* one request was rejected while another was scanning, and a third acquired
\* the lock after a holder had returned on the importer-unavailable path or
\* after its scan
C26_Witness ==
    /\ hstatus[1] \in {200, 503}
    /\ hpc[1] = "done"
    /\ hstatus[2] = 409
    /\ hpc[3] \in {"s.im", "ScanOnce"}
    /\ importBusy = 1

\* the lines in a channel's buffer
Buffered(c) == {chans[c][i] : i \in 1..Len(chans[c])}

\* a Printf in its fan-out can always take its next step
FanOutNeverBlocks ==
    \A p \in Printers :
        lpc[p] = "range subs" => ENABLED (LSend(p) \/ LUnlock(p))

\* a Printf that has ranged over subs has put its line last in the ring
\* buffer, and every subscribed channel has buffered it, or its handler has
\* received it, or it was dropped for that channel
LineReachedAll ==
    \A p \in Printers :
        lpc[p] = "range subs" =>
           /\ lines # <<>>
           /\ lines[Len(lines)] = cur[p]
           /\ todo[p] = {} =>
                 \A c \in subs : cur[p] \in Buffered(c) \cup got[c] \cup missed[c]

\* a line is dropped for a channel only when the channel is full, and a
\* channel is never filled beyond its slots
DroppedOnlyWhenFull ==
    \A c \in Subscribers :
        /\ missed'[c] # missed[c] => Len(chans[c]) = ChanSlots /\ chans'[c] = chans[c]
        /\ Len(chans'[c]) <= ChanSlots

\* C29: under any interleaving of Printf, Subscribe and Unsubscribe, Printf
\* never sends on a closed channel and never blocks; a line is dropped for a
\* subscriber only when that subscriber's buffer is full, and it still
\* reaches the ring buffer and the other subscribers
C29_PrintfNeitherPanicsNorBlocks ==
    /\ [](~panicked)
    /\ []FanOutNeverBlocks
    /\ []LineReachedAll
    /\ [][DroppedOnlyWhenFull]_vars

\* a line was dropped for one subscriber whose buffer was full and received
\* by the other, while a channel was already closed
C29_Witness ==
    /\ missed[3] # {}
    /\ missed[3] \cap got[4] # {}
    /\ closed # {}
    /\ printed = MaxPrints

\* C30: when the password handler reports "Password updated", a new session
\* has been created for the user and none of the sessions the user had before
\* the change is left in the table
C30_OldSessionsGone ==
    [][(apc = "Success" /\ amsg' = "Password updated")
       => (/\ anew # <<>>
           /\ \E x \in sessionRows' : <<x.id>> = anew /\ x.user_id = auser
           /\ abefore \cap sessionRows' = {})]_vars

\* what the handler does grant: the old sessions are gone when CreateSession
\* and the DELETE have both succeeded, and all of them are left when either
\* has failed
OldSessionsGoneOrAllLeft ==
    [][(apc = "Success" /\ amsg' = "Password updated")
       => \/ anew # <<>> /\ abefore \cap sessionRows' = {}
          \/ abefore \subseteq sessionRows']_vars

====
